---- MODULE Spec2Model ----
(***************************************************************************)
(* Model of premium-list-maker: the label validator, the bulk CSV          *)
(* ingestion engine with its transactional label/tag store, and the tier   *)
(* matcher.  Go strings are modelled as sequences of bytes, each byte a    *)
(* one-character string.                                                   *)
(***************************************************************************)
EXTENDS Integers, Sequences, FiniteSets, TLC

(***************************************************************************)
(* Bounds of the model                                                     *)
(***************************************************************************)
MaxValLen == 4
MaxHyLen == 6
MaxTail == 1

(***************************************************************************)
(* Byte strings                                                            *)
(***************************************************************************)
LowerLetters == <<"a","b","c","d","e","f","g","h","i","j","k","l","m",
                  "n","o","p","q","r","s","t","u","v","w","x","y","z">>
UpperLetters == <<"A","B","C","D","E","F","G","H","I","J","K","L","M",
                  "N","O","P","Q","R","S","T","U","V","W","X","Y","Z">>
Digits == <<"0","1","2","3","4","5","6","7","8","9">>

Range(s) == {s[i] : i \in DOMAIN s}

Whitespace == {" ", "\t", "\n", "\r"}

\* upper-case letter -> lower-case letter, and back
LowerOf == [c \in Range(UpperLetters) |->
              LowerLetters[CHOOSE i \in DOMAIN UpperLetters : UpperLetters[i] = c]]

UpperOf == [c \in Range(LowerLetters) |->
              UpperLetters[CHOOSE i \in DOMAIN LowerLetters : LowerLetters[i] = c]]

\* strings.ToLower on one byte
LowerByte(c) == IF c \in DOMAIN LowerOf THEN LowerOf[c] ELSE c

\* strings.ToUpper on one byte
UpperByte(c) == IF c \in DOMAIN UpperOf THEN UpperOf[c] ELSE c

ToLower(s) == [i \in DOMAIN s |-> LowerByte(s[i])]

ToUpper(s) == [i \in DOMAIN s |-> UpperByte(s[i])]

\* strings.TrimSpace: drop leading and trailing white space
TrimSpace(s) ==
    LET idx == {i \in DOMAIN s : s[i] \notin Whitespace}
    IN  IF idx = {} THEN <<>>
        ELSE LET lo == CHOOSE i \in idx : \A j \in idx : i <= j
                 hi == CHOOSE i \in idx : \A j \in idx : i >= j
             IN  SubSeq(s, lo, hi)

HasPrefix(s, p) == Len(s) >= Len(p) /\ SubSeq(s, 1, Len(p)) = p

HasSuffix(s, p) == Len(s) >= Len(p) /\ SubSeq(s, Len(s) - Len(p) + 1, Len(s)) = p

\* all byte strings over alphabet A with a length in lens
RECURSIVE StrsOfLen(_, _)
StrsOfLen(A, n) ==
    IF n = 0 THEN {<<>>}
    ELSE {Append(s, c) : s \in StrsOfLen(A, n - 1), c \in A}

Strs(A, lens) == UNION {StrsOfLen(A, n) : n \in lens}

Rep(c, n) == [i \in 1..n |-> c]

(***************************************************************************)
(* Label validator                                                         *)
(***************************************************************************)
LabelMinLen == 1
LabelMaxLen == 63

AcePrefix == <<"x","n","-","-">>

\* the character class [a-z0-9-]
LabelChars == Range(LowerLetters) \cup Range(Digits) \cup {"-"}

\* regexp ^[a-z0-9-]+$
validLabelChars(label) ==
    /\ Len(label) >= 1
    /\ \A i \in DOMAIN label : label[i] \in LabelChars

\* The double-hyphen test of ValidateLabel, step 4
DoubleDashAt34(label) ==
    Len(label) >= 4 /\ label[3] = "-" /\ label[4] = "-"

\* ValidateLabel with the upper length bound off by one (>= for >)
ValidateLabel_LenOffByOne(label, idnaOk) ==
    IF Len(label) >= LabelMaxLen \/ Len(label) < LabelMinLen
      THEN "ErrInvalidLabelLength"
    ELSE IF ~validLabelChars(label)
      THEN "ErrLabelContainsInvalidCharacter"
    ELSE IF HasPrefix(label, <<"-">>) \/ HasSuffix(label, <<"-">>)
      THEN "ErrInvalidLabelDash"
    ELSE IF DoubleDashAt34(label) /\ ~HasPrefix(label, AcePrefix)
      THEN "ErrInvalidLabelDoubleDash"
    ELSE IF HasPrefix(label, AcePrefix) /\ ~idnaOk
      THEN "ErrInvalidLabelIDN"
    ELSE "nil"

\* ValidateLabel with the boundary check on the first character only
ValidateLabel_NoSuffixCheck(label, idnaOk) ==
    IF Len(label) > LabelMaxLen \/ Len(label) < LabelMinLen
      THEN "ErrInvalidLabelLength"
    ELSE IF ~validLabelChars(label)
      THEN "ErrLabelContainsInvalidCharacter"
    ELSE IF HasPrefix(label, <<"-">>)
      THEN "ErrInvalidLabelDash"
    ELSE IF DoubleDashAt34(label) /\ ~HasPrefix(label, AcePrefix)
      THEN "ErrInvalidLabelDoubleDash"
    ELSE IF HasPrefix(label, AcePrefix) /\ ~idnaOk
      THEN "ErrInvalidLabelIDN"
    ELSE "nil"

\* ValidateLabel; idnaOk is the outcome of idna.Registration.ToUnicode on
\* the label (err == nil), an external library the model leaves open.
ValidateLabel(label, idnaOk) ==
    IF Len(label) > LabelMaxLen \/ Len(label) < LabelMinLen
      THEN "ErrInvalidLabelLength"
    ELSE IF ~validLabelChars(label)
      THEN "ErrLabelContainsInvalidCharacter"
    ELSE IF HasPrefix(label, <<"-">>) \/ HasSuffix(label, <<"-">>)
      THEN "ErrInvalidLabelDash"
    ELSE IF DoubleDashAt34(label) /\ ~HasPrefix(label, AcePrefix)
      THEN "ErrInvalidLabelDoubleDash"
    ELSE IF HasPrefix(label, AcePrefix) /\ ~idnaOk
      THEN "ErrInvalidLabelIDN"
    ELSE "nil"


(***************************************************************************)
(* State                                                                   *)
(***************************************************************************)
VARIABLES
    vLabel,       \* validator: the label under validation
    vErr,         \* validator: the error returned ("none" before the call)
    idnaValid,    \* the xn-- labels idna.Registration.ToUnicode accepts
    db,           \* committed content of the SQLite store
    file,         \* the CSV file: the records csv.Reader yields
    batchSize,    \* ImportCSV batchSize (scaled)
    autoTag,      \* ImportCSV argument
    filenameTag,  \* ImportCSV argument
    imp,          \* locals of the running ImportCSV call
    rets,         \* what the ImportCSV calls so far returned, with the
                  \* committed store at each return
    runs,         \* number of ImportCSV calls started
    faults,       \* number of failed commits so far
    gLabels,      \* generator: labelsWithTags, label -> its tags
    gTiers,       \* generator: the tiers loaded from tiers.json
    gEntries,     \* generator: the entries produced
    gCsv,         \* generator: the records writeCSV wrote after the header
    gDone,        \* generator: GeneratePremiumList has run
    cmd,          \* the command line: the running command and the exit of
                  \* the last one
    xl,           \* SplitXLSX: the workbook, the loop position, the files
                  \* written and what each splitSheetByTier call wrote
    bulk          \* one BulkInsertLabels call: its arguments and its result

vars == <<vLabel, vErr, idnaValid, db, file, batchSize, autoTag, filenameTag,
          imp, rets, runs, faults, gLabels, gTiers, gEntries, gCsv, gDone, cmd, xl, bulk>>

genVars == <<gLabels, gTiers, gEntries, gCsv, gDone>>

valVars == <<vLabel, vErr>>

impVars == <<db, file, batchSize, autoTag, filenameTag, imp, rets, runs, faults>>

(***************************************************************************)
(* Store: tables labels, tags, label_tags.  A row's id is its position     *)
(* (INTEGER PRIMARY KEY AUTOINCREMENT, no deletes).                        *)
(***************************************************************************)
EmptyDB == [labels |-> <<>>, tags |-> <<>>, label_tags |-> {}]

LabelTexts(view) == {view.labels[i].label : i \in DOMAIN view.labels}

\* SELECT id FROM tags WHERE name = ?   (0: sql.ErrNoRows)
TagIDOf(view, name) ==
    IF \E i \in DOMAIN view.tags : view.tags[i] = name
    THEN CHOOSE i \in DOMAIN view.tags : view.tags[i] = name
    ELSE 0

\* SELECT id FROM labels WHERE label = ?   (0: sql.ErrNoRows)
LabelIDOf(view, label) ==
    IF \E i \in DOMAIN view.labels : view.labels[i].label = label
    THEN CHOOSE i \in DOMAIN view.labels : view.labels[i].label = label
    ELSE 0

\* LoadAllLabelIDs: map label -> id
LoadAllLabelIDs(view) ==
    [l \in LabelTexts(view) |-> LabelIDOf(view, l)]

\* LoadAllTagIDs: map tag name -> id
LoadAllTagIDs(view) ==
    [n \in Range(view.tags) |-> TagIDOf(view, n)]

\* A transaction: its database/sql state and, while open, its view of the
\* store (committed content plus its own writes).
TxOpen(t) == t.state = "open"

\* GetOrCreateTagTx: [err, tx, id]
GetOrCreateTagTx(t, tagName) ==
    IF ~TxOpen(t) THEN [err |-> TRUE, tx |-> t, id |-> 0]
    ELSE IF TagIDOf(t.view, tagName) # 0
      THEN [err |-> FALSE, tx |-> t, id |-> TagIDOf(t.view, tagName)]
    ELSE [err |-> FALSE,
          tx |-> [t EXCEPT !.view.tags = Append(@, tagName)],
          id |-> Len(t.view.tags) + 1]

\* tagger.GenerateLengthTag: "len:%d"
RECURSIVE Itoa(_)
Itoa(n) == IF n < 10 THEN <<Digits[n + 1]>>
           ELSE Itoa(n \div 10) \o <<Digits[(n % 10) + 1]>>

GenerateLengthTag(length) == <<"l","e","n",":">> \o Itoa(length)

MapPut(m, k, v) == [x \in DOMAIN m \cup {k} |-> IF x = k THEN v ELSE m[x]]

\* for label, id := range m2 { m1[label] = id }
MapMerge(m1, m2) ==
    [x \in DOMAIN m1 \cup DOMAIN m2 |-> IF x \in DOMAIN m2 THEN m2[x] ELSE m1[x]]

\* SQLite parameter ceiling and the rows per INSERT derived from it
maxParams == 999
valuesPerRow == 2
maxRowsPerInsert == maxParams \div valuesPerRow

\* SeparateNew without the seenInBatch test
RECURSIVE SeparateNew_NoSeen(_, _, _, _)
SeparateNew_NoSeen(labels, i, existingLabelMap, acc) ==
    IF i > Len(labels) THEN acc
    ELSE LET l == labels[i] IN
      IF l.label \in DOMAIN existingLabelMap
        THEN SeparateNew_NoSeen(labels, i + 1, existingLabelMap,
               [acc EXCEPT !.LabelMap = MapPut(@, l.label, existingLabelMap[l.label]),
                           !.ExistingCount = @ + 1])
      ELSE SeparateNew_NoSeen(labels, i + 1, existingLabelMap,
               [acc EXCEPT !.newLabels = Append(@, l),
                           !.seenInBatch = @ \cup {l.label}])

\* BulkInsertLabels, first loop: split the batch into labels found in
\* existingLabelMap and new labels, the latter once per text (seenInBatch)
RECURSIVE SeparateNew(_, _, _, _)
SeparateNew(labels, i, existingLabelMap, acc) ==
    IF i > Len(labels) THEN acc
    ELSE LET l == labels[i] IN
      IF l.label \in DOMAIN existingLabelMap
        THEN SeparateNew(labels, i + 1, existingLabelMap,
               [acc EXCEPT !.LabelMap = MapPut(@, l.label, existingLabelMap[l.label]),
                           !.ExistingCount = @ + 1])
      ELSE IF l.label \in acc.seenInBatch
        THEN SeparateNew(labels, i + 1, existingLabelMap, acc)
      ELSE SeparateNew(labels, i + 1, existingLabelMap,
               [acc EXCEPT !.newLabels = Append(@, l),
                           !.seenInBatch = @ \cup {l.label}])

\* InsertLabelsChunk with the rows of a statement stored last to first
InsertLabelsChunk_Reversed(t, chunk, LabelMap) ==
    LET texts == {chunk[j].label : j \in DOMAIN chunk}
        base == Len(t.view.labels)
        rev == [j \in DOMAIN chunk |-> chunk[Len(chunk) + 1 - j]]
    IN  IF \/ ~TxOpen(t)
           \/ texts \cap LabelTexts(t.view) # {}
           \/ Cardinality(texts) # Len(chunk)
        THEN [err |-> TRUE, tx |-> t, LabelMap |-> LabelMap]
        ELSE [err |-> FALSE,
              tx |-> [t EXCEPT !.view.labels = @ \o rev],
              LabelMap |-> [x \in DOMAIN LabelMap \cup texts |->
                              IF x \in texts
                              THEN base + (CHOOSE j \in DOMAIN rev : rev[j].label = x)
                              ELSE LabelMap[x]]]

\* One "INSERT INTO labels (label, length) VALUES ... RETURNING id": the
\* statement fails as a whole on a closed transaction or when a text breaks
\* the UNIQUE constraint; otherwise the rows get the next ids in order.
InsertLabelsChunk(t, chunk, LabelMap) ==
    LET texts == {chunk[j].label : j \in DOMAIN chunk}
        base == Len(t.view.labels)
    IN  IF \/ ~TxOpen(t)
           \/ texts \cap LabelTexts(t.view) # {}
           \/ Cardinality(texts) # Len(chunk)
        THEN [err |-> TRUE, tx |-> t, LabelMap |-> LabelMap]
        ELSE [err |-> FALSE,
              tx |-> [t EXCEPT !.view.labels = @ \o chunk],
              LabelMap |-> [x \in DOMAIN LabelMap \cup texts |->
                              IF x \in texts
                              THEN base + (CHOOSE j \in DOMAIN chunk : chunk[j].label = x)
                              ELSE LabelMap[x]]]

\* the rows per INSERT statement of a BulkInsertLabels call: the program's
\* 499, or ChunkRows where a small batch has to span several statements
ChunkRows == 2

\* a bug: the row after each full statement is left out
RECURSIVE InsertChunksBy_Gap(_, _, _, _, _, _)
InsertChunksBy_Gap(rows, t, newLabels, i, LabelMap, stmts) ==
    IF i > Len(newLabels)
    THEN [err |-> FALSE, tx |-> t, LabelMap |-> LabelMap, stmts |-> stmts]
    ELSE LET end == IF i + rows - 1 > Len(newLabels)
                    THEN Len(newLabels) ELSE i + rows - 1
             r == InsertLabelsChunk(t, SubSeq(newLabels, i, end), LabelMap)
         IN  IF r.err THEN [err |-> TRUE, tx |-> r.tx, LabelMap |-> r.LabelMap,
                            stmts |-> stmts]
             ELSE InsertChunksBy_Gap(rows, r.tx, newLabels, end + 2, r.LabelMap,
                                     Append(stmts, end - i + 1))

\* BulkInsertLabels, second loop: insert newLabels in statements of at most
\* rows rows; stmts is the number of rows of each statement executed
RECURSIVE InsertChunksBy(_, _, _, _, _, _)
InsertChunksBy(rows, t, newLabels, i, LabelMap, stmts) ==
    IF i > Len(newLabels)
    THEN [err |-> FALSE, tx |-> t, LabelMap |-> LabelMap, stmts |-> stmts]
    ELSE LET end == IF i + rows - 1 > Len(newLabels)
                    THEN Len(newLabels) ELSE i + rows - 1
             r == InsertLabelsChunk(t, SubSeq(newLabels, i, end), LabelMap)
         IN  IF r.err THEN [err |-> TRUE, tx |-> r.tx, LabelMap |-> r.LabelMap,
                            stmts |-> stmts]
             ELSE InsertChunksBy(rows, r.tx, newLabels, end + 1, r.LabelMap,
                                 Append(stmts, end - i + 1))

\* BulkInsertLabels: [err, tx, LabelMap, NewCount, ExistingCount, stmts]
BulkInsertLabelsBy(rows, t, labels, existingLabelMap) ==
    LET sep == SeparateNew(labels, 1, existingLabelMap,
                 [LabelMap |-> <<>>, ExistingCount |-> 0,
                  newLabels |-> <<>>, seenInBatch |-> {}])
        ins == InsertChunksBy(rows, t, sep.newLabels, 1, sep.LabelMap, <<>>)
    IN  [err |-> ins.err, tx |-> ins.tx, LabelMap |-> ins.LabelMap,
         NewCount |-> Len(sep.newLabels), ExistingCount |-> sep.ExistingCount,
         stmts |-> ins.stmts]

BulkInsertLabels(t, labels, existingLabelMap) ==
    BulkInsertLabelsBy(maxRowsPerInsert, t, labels, existingLabelMap)

\* One "INSERT OR IGNORE INTO label_tags": fails on a closed transaction or
\* a foreign key that names no row; pairs already present are ignored.
RECURSIVE AddTagsChunks(_, _, _)
AddTagsChunks(t, associations, i) ==
    IF i > Len(associations) THEN [err |-> FALSE, tx |-> t]
    ELSE LET end == IF i + maxRowsPerInsert - 1 > Len(associations)
                    THEN Len(associations) ELSE i + maxRowsPerInsert - 1
             chunk == SubSeq(associations, i, end)
             pairs == {<<chunk[j].LabelID, chunk[j].TagID>> : j \in DOMAIN chunk}
         IN  IF \/ ~TxOpen(t)
                \/ \E p \in pairs : \/ p[1] \notin DOMAIN t.view.labels
                                    \/ p[2] \notin DOMAIN t.view.tags
             THEN [err |-> TRUE, tx |-> t]
             ELSE AddTagsChunks([t EXCEPT !.view.label_tags = @ \cup pairs],
                                associations, end + 1)

\* BulkAddTagsToLabels with a plain INSERT: a pair already present fails
BulkAddTagsToLabels_NoIgnore(t, associations) ==
    IF \E j \in DOMAIN associations :
         <<associations[j].LabelID, associations[j].TagID>> \in t.view.label_tags
    THEN [err |-> TRUE, tx |-> t]
    ELSE AddTagsChunks(t, associations, 1)

\* BulkAddTagsToLabels: [err, tx]
BulkAddTagsToLabels(t, associations) == AddTagsChunks(t, associations, 1)

(***************************************************************************)
(* ImportCSV                                                               *)
(***************************************************************************)
\* commitInterval is ten batches in the source (100000 / 10000); the model
\* keeps it a multiple of batchSize
CommitRatio == 2
commitInterval == CommitRatio * batchSize

\* pre-created length tags: for i := 1; i <= 20; i++ (scaled, so that the
\* input labels fall on both sides of it)
PreLenTags == 5

NoStats == [Imported |-> 0, NewLabels |-> 0, ExistingLabels |-> 0,
            Skipped |-> 0, HeaderSkipped |-> FALSE, Errors |-> <<>>]

\* db.BeginTransaction
BeginTransaction(d) == [state |-> "open", view |-> d]

\* the transaction the variable tx of ImportCSV currently names
CurTx(im) == im.txs[Len(im.txs)]

SetCurTx(im, t) == [im EXCEPT !.txs[Len(im.txs)] = t]

\* tx.Commit: on a finished transaction sql.ErrTxDone; a failing COMMIT
\* is followed by the driver's ROLLBACK (state "failed"); either way the
\* Tx is done
Commit(t, d, fails) ==
    IF ~TxOpen(t) THEN [err |-> TRUE, tx |-> t, db |-> d, failed |-> FALSE]
    ELSE IF fails
      THEN [err |-> TRUE, tx |-> [state |-> "failed", view |-> EmptyDB],
            db |-> d, failed |-> TRUE]
    ELSE [err |-> FALSE, tx |-> [state |-> "committed", view |-> EmptyDB],
          db |-> t.view, failed |-> FALSE]

\* tx.Rollback: no effect on a finished transaction
Rollback(t) ==
    IF TxOpen(t) THEN [state |-> "rolledback", view |-> EmptyDB] ELSE t

\* processBatch, the loop that prepares the tag associations of the batch
RECURSIVE PrepareAssociations(_, _, _, _)
PrepareAssociations(im, labelMap, i, associations) ==
    IF i > Len(im.batch) THEN [err |-> FALSE, imp |-> im, associations |-> associations]
    ELSE LET l == im.batch[i] IN
      IF l.label \notin DOMAIN labelMap
        THEN PrepareAssociations(im, labelMap, i + 1, associations)
      ELSE
        LET labelID == labelMap[l.label]
            lengthTag == GenerateLengthTag(l.length)
            created == GetOrCreateTagTx(CurTx(im), lengthTag)
            \* outcome of the length-tag lookup: [err, imp, tagID]
            lt == IF lengthTag \in DOMAIN im.tagCache
                    THEN [err |-> FALSE, imp |-> im, tagID |-> im.tagCache[lengthTag]]
                  ELSE IF lengthTag \in DOMAIN im.existingTagMap
                    THEN [err |-> FALSE,
                          imp |-> [im EXCEPT !.tagCache =
                                     MapPut(@, lengthTag, im.existingTagMap[lengthTag])],
                          tagID |-> im.existingTagMap[lengthTag]]
                  ELSE IF created.err
                    THEN [err |-> TRUE, imp |-> im, tagID |-> 0]
                  ELSE [err |-> FALSE,
                        imp |-> [SetCurTx(im, created.tx) EXCEPT
                                   !.tagCache = MapPut(@, lengthTag, created.id),
                                   !.existingTagMap = MapPut(@, lengthTag, created.id)],
                        tagID |-> created.id]
            im1 == IF autoTag THEN lt.imp ELSE im
            a1 == IF autoTag
                  THEN Append(associations, [LabelID |-> labelID, TagID |-> lt.tagID])
                  ELSE associations
            a2 == IF filenameTag # <<>>
                  THEN Append(a1, [LabelID |-> labelID, TagID |-> im.filenameTagID])
                  ELSE a1
        IN  IF autoTag /\ lt.err
            THEN [err |-> TRUE, imp |-> im, associations |-> associations]
            ELSE PrepareAssociations(im1, labelMap, i + 1, a2)

\* FinishBatch without the periodic commit
FinishBatch_NoCommit(im, d, commitFails) ==
    [err |-> FALSE,
     imp |-> [im EXCEPT !.labelsProcessed = @ + Len(im.batch),
                        !.stats.Imported = @ + Len(im.batch),
                        !.batch = <<>>],
     db |-> d, commitFailed |-> FALSE]

\* processBatch, from the counters to the end: the periodic commit
FinishBatch(im, d, commitFails) ==
    LET im1 == [im EXCEPT !.labelsProcessed = @ + Len(im.batch),
                          !.stats.Imported = @ + Len(im.batch)]
        c == Commit(CurTx(im1), d, commitFails)
    IN  IF im1.labelsProcessed >= commitInterval
        THEN IF c.err
             THEN [err |-> TRUE, imp |-> SetCurTx(im1, c.tx), db |-> c.db,
                   commitFailed |-> c.failed]
             ELSE [err |-> FALSE,
                   imp |-> [SetCurTx(im1, c.tx) EXCEPT
                              !.txs = Append(@, BeginTransaction(c.db)),
                              !.labelsProcessed = 0,
                              !.batch = <<>>],
                   db |-> c.db, commitFailed |-> FALSE]
        ELSE [err |-> FALSE, imp |-> [im1 EXCEPT !.batch = <<>>], db |-> d,
              commitFailed |-> FALSE]

\* processBatch: [err, imp, db, commitFailed]
processBatch(im, d, commitFails) ==
    IF Len(im.batch) = 0
      THEN [err |-> FALSE, imp |-> im, db |-> d, commitFailed |-> FALSE]
    ELSE
      LET insertResult == BulkInsertLabels(CurTx(im), im.batch, im.existingLabelMap)
          im1 == [SetCurTx(im, insertResult.tx) EXCEPT
                    !.existingLabelMap = MapMerge(@, insertResult.LabelMap),
                    !.stats.NewLabels = @ + insertResult.NewCount,
                    !.stats.ExistingLabels = @ + insertResult.ExistingCount]
          prep == PrepareAssociations(im1, insertResult.LabelMap, 1, <<>>)
          added == BulkAddTagsToLabels(CurTx(prep.imp), prep.associations)
      IN  IF insertResult.err
            THEN [err |-> TRUE, imp |-> SetCurTx(im, insertResult.tx), db |-> d,
                  commitFailed |-> FALSE]
          ELSE IF prep.err
            THEN [err |-> TRUE, imp |-> prep.imp, db |-> d, commitFailed |-> FALSE]
          ELSE IF added.err
            THEN [err |-> TRUE, imp |-> SetCurTx(prep.imp, added.tx), db |-> d,
                  commitFailed |-> FALSE]
          ELSE FinishBatch(SetCurTx(prep.imp, added.tx), d, commitFails)

\* isHeaderRow: the fixed header words
headerKeywords ==
    {<<"l","a","b","e","l">>,
     <<"l","a","b","e","l","s">>,
     <<"d","o","m","a","i","n">>,
     <<"d","o","m","a","i","n","s">>,
     <<"n","a","m","e">>,
     <<"n","a","m","e","s">>,
     <<"i","d">>,
     <<"i","d","e","n","t","i","f","i","e","r">>,
     <<"s","t","r","i","n","g">>,
     <<"s","t","r","i","n","g","s">>,
     <<"s","l","d">>,
     <<"s","e","c","o","n","d"," ","l","e","v","e","l"," ","d","o","m","a","i","n">>,
     <<"d","o","m","a","i","n"," ","n","a","m","e">>}

\* isHeaderRow
isHeaderRow(firstCol) ==
    \/ ToLower(TrimSpace(firstCol)) \in headerKeywords
    \/ (firstCol = ToUpper(firstCol) /\ Len(firstCol) > 1 /\ Len(firstCol) > 2)

(***************************************************************************)
(* Input files.  A record is the first field csv.Reader returns for a      *)
(* line, or a parse error (bad).  encoding/csv never returns a record      *)
(* without fields, so the branch for an empty record is not reachable.     *)
(***************************************************************************)
MaxRows == 4
MaxBatch == 3
MaxRuns == 2
MaxFaults == 1

Rec(s) == [bad |-> FALSE, field |-> s]

BadRec == [bad |-> TRUE, field |-> <<>>]

sSTRING == <<"S","T","R","I","N","G">>
sApple == <<"a","p","p","l","e">>
sBanana == <<"b","a","n","a","n","a">>
sDashA == <<"-","a">>
sWords == <<"w","o","r","d","s">>

RowChoices == {Rec(sSTRING), Rec(sApple), Rec(sBanana), Rec(sDashA)}

\* ImportCSV arguments <<autoTag, filenameTag>>; runImport passes the first
Configs == {<<TRUE, sWords>>, <<FALSE, <<>>>>}

Files == UNION {[1..n -> RowChoices] : n \in 0..MaxRows}

\* the labels of the input rows that carry the ACE prefix
XnLabels ==
    {ToLower(TrimSpace(r.field)) : r \in {x \in RowChoices : HasPrefix(ToLower(TrimSpace(x.field)), AcePrefix)}}

IdleImp == [pc |-> "idle", pos |-> 0, lineNum |-> 0, txs |-> <<>>,
            existingLabelMap |-> <<>>, existingTagMap |-> <<>>, tagCache |-> <<>>,
            filenameTagID |-> 0, batch |-> <<>>, labelsProcessed |-> 0,
            stats |-> NoStats]

\* ImportCSV, pre-creation of the length tags 1..20: [tx, tagCache, existingTagMap]
RECURSIVE PreCreateLenTags(_, _)
PreCreateLenTags(acc, i) ==
    IF i > PreLenTags THEN acc
    ELSE LET lengthTag == GenerateLengthTag(i)
             created == GetOrCreateTagTx(acc.tx, lengthTag)
         IN  IF lengthTag \in DOMAIN acc.existingTagMap
             THEN PreCreateLenTags(
                    [acc EXCEPT !.tagCache = MapPut(@, lengthTag, acc.existingTagMap[lengthTag])],
                    i + 1)
             ELSE PreCreateLenTags(
                    [tx |-> created.tx,
                     tagCache |-> MapPut(acc.tagCache, lengthTag, created.id),
                     existingTagMap |-> MapPut(acc.existingTagMap, lengthTag, created.id)],
                    i + 1)

\* The process around ImportCSV.  pc is "none" when ImportCSV is called
\* directly, "shell" between two commands, "call" when runImport is about to
\* call ImportCSV on csvFiles[i] and "wait" while that call runs; last, exit
\* and stderr are the name, the exit status and the use of stderr of the
\* last command that ended (exit -1: none yet).
NoCmd == [pc |-> "none", csvFiles |-> <<>>, i |-> 0,
          FilesProcessed |-> 0, FilesSkipped |-> 0,
          n |-> 0, last |-> "none", exit |-> -1, stderr |-> FALSE]

\* BulkInsertLabels has not been called on its own
NoBulk == [pc |-> "none", rows |-> 0, tx |-> <<>>, labels |-> <<>>,
           existingLabelMap |-> <<>>, result |-> <<>>]

\* SplitXLSX has not been called
NoSplit == [pc |-> "none", format |-> "default", sheets |-> <<>>, i |-> 0,
            files |-> <<>>, foundTiers |-> <<>>, json |-> <<>>, calls |-> <<>>,
            processed |-> <<>>, skipped |-> <<>>, err |-> FALSE]

\* ImportCSV from its entry to the read loop: begin the transaction, load
\* the id maps, pre-create the length tags and the filename tag
StartImport ==
    /\ imp.pc = "idle"
    /\ cmd.pc \in {"none", "call"}
    /\ cmd' = IF cmd.pc = "call" THEN [cmd EXCEPT !.pc = "wait"] ELSE cmd
    /\ runs < MaxRuns
    /\ LET tx0 == BeginTransaction(db)
           a0 == [tx |-> tx0, tagCache |-> <<>>,
                  existingTagMap |-> LoadAllTagIDs(tx0.view)]
           a1 == IF autoTag THEN PreCreateLenTags(a0, 1) ELSE a0
           fcreated == GetOrCreateTagTx(a1.tx, filenameTag)
           a2 == IF filenameTag = <<>> THEN [a |-> a1, id |-> 0]
                 ELSE IF filenameTag \in DOMAIN a1.existingTagMap
                   THEN [a |-> a1, id |-> a1.existingTagMap[filenameTag]]
                 ELSE [a |-> [a1 EXCEPT !.tx = fcreated.tx,
                                        !.existingTagMap = MapPut(@, filenameTag, fcreated.id)],
                       id |-> fcreated.id]
       IN  imp' = [pc |-> "loop", pos |-> 0, lineNum |-> 0, txs |-> <<a2.a.tx>>,
                   existingLabelMap |-> LoadAllLabelIDs(tx0.view),
                   existingTagMap |-> a2.a.existingTagMap,
                   tagCache |-> a2.a.tagCache,
                   filenameTagID |-> a2.id, batch |-> <<>>, labelsProcessed |-> 0,
                   stats |-> NoStats]
    /\ runs' = runs + 1
    /\ UNCHANGED <<rets, db, file, batchSize, autoTag, filenameTag, faults, idnaValid, xl, bulk, valVars, genVars>>

FaultChoices == IF faults < MaxFaults THEN BOOLEAN ELSE {FALSE}

\* processBatch on the batch plus extra rows would reach its periodic
\* tx.Commit(); a commit can only fail where one is made
CommitDue(im, extra) ==
    /\ Len(im.batch) + extra > 0
    /\ im.labelsProcessed + Len(im.batch) + extra >= commitInterval

BatchError == [line |-> 0, label |-> <<>>, kind |-> "batch processing error"]

\* the step of the read loop after a batch was tried: a failure is only
\* recorded in stats.Errors
AfterBatch(r) ==
    IF r.err THEN [r.imp EXCEPT !.stats.Errors = Append(@, BatchError)] ELSE r.imp

\* the read loop on a row that fails validation, without the error message
RejectRow_NoError(im0, label, verr) ==
    [im0 EXCEPT !.stats.Skipped = @ + 1]

\* the read loop on a row that fails validation: count it as skipped and
\* append "line %d: skipped invalid label '%s': %v"
RejectRow(im0, label, verr) ==
    [im0 EXCEPT !.stats.Skipped = @ + 1,
                !.stats.Errors =
                  Append(@, [line |-> im0.lineNum, label |-> label, kind |-> verr])]

\* One iteration of the read loop on a record of the file
ReadRecord ==
    /\ imp.pc = "loop"
    /\ imp.pos < Len(file)
    /\ \E commitFails \in FaultChoices :
         /\ commitFails => (Len(imp.batch) + 1 >= batchSize /\ CommitDue(imp, 1))
         /\ LET record == file[imp.pos + 1]
                im0 == [imp EXCEPT !.pos = @ + 1, !.lineNum = @ + 1]
                label == ToLower(TrimSpace(record.field))
                verr == ValidateLabel(label, label \in idnaValid)
                im1 == [im0 EXCEPT !.batch = Append(@, [label |-> label, length |-> Len(label)])]
                r == processBatch(im1, db, commitFails)
            IN  IF record.bad
                  THEN /\ imp' = [im0 EXCEPT !.stats.Errors =
                                    Append(@, [line |-> imp.lineNum + 1, label |-> <<>>,
                                               kind |-> "parse error"])]
                       /\ UNCHANGED <<db, faults>>
                ELSE IF label = <<>>
                  THEN /\ imp' = [im0 EXCEPT !.stats.Skipped = @ + 1]
                       /\ UNCHANGED <<db, faults>>
                ELSE IF ~imp.stats.HeaderSkipped /\ isHeaderRow(label)
                  THEN /\ imp' = [im0 EXCEPT !.stats.HeaderSkipped = TRUE,
                                             !.stats.Skipped = @ + 1]
                       /\ UNCHANGED <<db, faults>>
                ELSE IF verr # "nil"
                  THEN /\ imp' = RejectRow(im0, label, verr)
                       /\ UNCHANGED <<db, faults>>
                ELSE IF Len(im1.batch) >= batchSize
                  THEN /\ imp' = AfterBatch(r)
                       /\ db' = r.db
                       /\ faults' = IF r.commitFailed THEN faults + 1 ELSE faults
                ELSE /\ imp' = im1
                     /\ UNCHANGED <<db, faults>>
    /\ UNCHANGED <<file, batchSize, autoTag, filenameTag, rets, runs, idnaValid, xl, bulk, valVars, genVars, cmd>>

\* a bug: the rows still in the batch at io.EOF are not processed
ReadEOF_NoFlush ==
    /\ imp.pc = "loop"
    /\ imp.pos = Len(file)
    /\ imp' = [imp EXCEPT !.pc = "final"]
    /\ UNCHANGED <<db, faults>>
    /\ UNCHANGED <<file, batchSize, autoTag, filenameTag, rets, runs, idnaValid, xl, bulk, valVars, genVars, cmd>>

\* The read loop at io.EOF: process the remaining batch and leave the loop
ReadEOF ==
    /\ imp.pc = "loop"
    /\ imp.pos = Len(file)
    /\ \E commitFails \in FaultChoices :
         /\ commitFails => CommitDue(imp, 0)
         /\ LET r == processBatch(imp, db, commitFails)
            IN  /\ imp' = [AfterBatch(r) EXCEPT !.pc = "final"]
                /\ db' = r.db
                /\ faults' = IF r.commitFailed THEN faults + 1 ELSE faults
    /\ UNCHANGED <<file, batchSize, autoTag, filenameTag, rets, runs, idnaValid, xl, bulk, valVars, genVars, cmd>>

\* ImportCSV after the loop: the final commit, the return, and the deferred
\* tx.Rollback(), which is bound to the first transaction of the call
ReturnImport ==
    /\ imp.pc = "final"
    /\ \E commitFails \in FaultChoices :
         /\ commitFails => imp.labelsProcessed > 0
         /\ LET c == Commit(CurTx(imp), db, commitFails)
                im1 == IF imp.labelsProcessed > 0 THEN SetCurTx(imp, c.tx) ELSE imp
                failed == imp.labelsProcessed > 0 /\ c.err
                newdb == IF imp.labelsProcessed > 0 THEN c.db ELSE db
            IN  /\ imp' = [im1 EXCEPT !.pc = "idle", !.txs[1] = Rollback(@)]
                /\ db' = newdb
                /\ rets' = Append(rets,
                             IF failed
                             THEN [status |-> "err", stats |-> "nil", db |-> newdb]
                             ELSE [status |-> "ok", stats |-> imp.stats, db |-> newdb])
                /\ faults' = IF imp.labelsProcessed > 0 /\ c.failed
                             THEN faults + 1 ELSE faults
    /\ UNCHANGED <<file, batchSize, autoTag, filenameTag, runs, idnaValid, xl, bulk, valVars, genVars, cmd>>

InitImport ==
    /\ file \in Files
    /\ batchSize \in {1, MaxBatch}
    /\ \E c \in Configs : autoTag = c[1] /\ filenameTag = c[2]
    /\ idnaValid \in SUBSET XnLabels
    /\ db = EmptyDB
    /\ imp = IdleImp
    /\ rets = <<>>
    /\ runs = 0
    /\ faults = 0
    /\ vLabel = <<>>
    /\ vErr = "none"
    /\ gLabels = <<>>
    /\ gTiers = <<>>
    /\ gEntries = {}
    /\ gCsv = {}
    /\ gDone = FALSE
    /\ cmd = NoCmd
    /\ xl = NoSplit
    /\ bulk = NoBulk

NextImport == StartImport \/ ReadRecord \/ ReadEOF \/ ReturnImport

Spec == InitImport /\ [][NextImport]_vars

(***************************************************************************)
(* ImportCSV on files whose first rows may or may not be headers           *)
(***************************************************************************)
MaxHdrRows == 3

sAPPLE == <<"A","P","P","L","E">>
s123 == <<"1","2","3">>
sDomain == <<"D","o","m","a","i","n">>
sSpace == <<" ">>

HdrRowChoices ==
    {Rec(sAPPLE), Rec(s123), Rec(sDomain), Rec(sApple), Rec(sSpace),
     Rec(sDashA), BadRec}

HdrFiles == UNION {[1..n -> HdrRowChoices] : n \in 0..MaxHdrRows}

InitHeaders ==
    /\ file \in HdrFiles
    /\ batchSize \in {1, MaxBatch}
    /\ \E c \in Configs : autoTag = c[1] /\ filenameTag = c[2]
    /\ idnaValid = {}
    /\ db = EmptyDB
    /\ imp = IdleImp
    /\ rets = <<>>
    /\ runs = 0
    /\ faults = 0
    /\ vLabel = <<>>
    /\ vErr = "none"
    /\ gLabels = <<>>
    /\ gTiers = <<>>
    /\ gEntries = {}
    /\ gCsv = {}
    /\ gDone = FALSE
    /\ cmd = NoCmd
    /\ xl = NoSplit
    /\ bulk = NoBulk

SpecHeaders == InitHeaders /\ [][NextImport]_vars

(***************************************************************************)
(* ImportCSV on files long enough for several commit groups                *)
(***************************************************************************)
MaxGroupRows == 5

GroupFiles == UNION {[1..n -> {Rec(sApple), Rec(sBanana)}] : n \in 0..MaxGroupRows}

InitGroups ==
    /\ file \in GroupFiles
    /\ batchSize \in {1, 2}
    /\ \E c \in Configs : autoTag = c[1] /\ filenameTag = c[2]
    /\ idnaValid = {}
    /\ db = EmptyDB
    /\ imp = IdleImp
    /\ rets = <<>>
    /\ runs = 0
    /\ faults = 0
    /\ vLabel = <<>>
    /\ vErr = "none"
    /\ gLabels = <<>>
    /\ gTiers = <<>>
    /\ gEntries = {}
    /\ gCsv = {}
    /\ gDone = FALSE
    /\ cmd = NoCmd
    /\ xl = NoSplit
    /\ bulk = NoBulk

SpecGroups == InitGroups /\ [][NextImport]_vars

(***************************************************************************)
(* The validator on its own                                                *)
(***************************************************************************)
ValAlphabet == {"a", "x", "n", "-", "1", "A"}

ValInputs ==
    Strs(ValAlphabet, 0..MaxValLen)
      \cup Strs({"a", "-"}, (MaxValLen + 1)..MaxHyLen)
      \cup {AcePrefix \o t : t \in Strs({"a", "1", "-"}, 0..MaxTail)}
      \cup {Rep("a", n) : n \in (LabelMaxLen - 1)..(LabelMaxLen + 1)}
      \cup {Rep("a", LabelMaxLen) \o <<"-">>, <<"-">> \o Rep("A", LabelMaxLen)}

InitValidate ==
    /\ vLabel \in ValInputs
    /\ idnaValid \in {{}, {vLabel}}
    /\ vErr = "none"
    /\ file = <<>>
    /\ batchSize = 1
    /\ autoTag = FALSE
    /\ filenameTag = <<>>
    /\ db = EmptyDB
    /\ imp = IdleImp
    /\ rets = <<>>
    /\ runs = 0
    /\ faults = 0
    /\ gLabels = <<>>
    /\ gTiers = <<>>
    /\ gEntries = {}
    /\ gCsv = {}
    /\ gDone = FALSE
    /\ cmd = NoCmd
    /\ xl = NoSplit
    /\ bulk = NoBulk

\* a call ValidateLabel(vLabel)
DoValidate ==
    /\ vErr = "none"
    /\ vErr' = ValidateLabel(vLabel, vLabel \in idnaValid)
    /\ UNCHANGED <<vLabel, idnaValid, xl, bulk, impVars, genVars, cmd>>

NextValidate == DoValidate

SpecValidate == InitValidate /\ [][NextValidate]_vars
(***************************************************************************)
(* Tier matcher                                                            *)
(***************************************************************************)
MaxTiers == 2
MaxNegTier == 1
MaxTierId == 1

\* hasMatchingTag; labelTagSet is the set built from labelTags
hasMatchingTag(tierTags, labelTagSet) ==
    \E i \in DOMAIN tierTags : tierTags[i] \in labelTagSet

\* findBestTier, the loop over tiers: best is the index of bestTier (0: nil)
RECURSIVE BestTierLoop(_, _, _, _, _)
BestTierLoop(tagSet, tiers, i, best, bestTierNum) ==
    IF i > Len(tiers) THEN best
    ELSE IF hasMatchingTag(tiers[i].Tags, tagSet) /\ tiers[i].Tier > bestTierNum
      THEN BestTierLoop(tagSet, tiers, i + 1, i, tiers[i].Tier)
    ELSE BestTierLoop(tagSet, tiers, i + 1, best, bestTierNum)

\* findBestTier: the index in tiers of the tier returned, 0 for nil
findBestTier(labelTags, tiers) ==
    BestTierLoop(Range(labelTags), tiers, 1, 0, -1)

\* GeneratePremiumList, the matching loop; the order of the entries is the
\* iteration order of a Go map, so the entries are kept as a set
MatchEntries(labelsWithTags, tiers) ==
    {[Label |-> l,
      Tier |-> tiers[findBestTier(labelsWithTags[l], tiers)].Tier,
      PriceReg |-> tiers[findBestTier(labelsWithTags[l], tiers)].PriceReg,
      PriceRen |-> tiers[findBestTier(labelsWithTags[l], tiers)].PriceRen,
      PriceRes |-> tiers[findBestTier(labelsWithTags[l], tiers)].PriceRes,
      Currency |-> tiers[findBestTier(labelsWithTags[l], tiers)].Currency] :
       l \in {x \in DOMAIN labelsWithTags : findBestTier(labelsWithTags[x], tiers) # 0}}

\* fmt.Sprintf("%.2f", *f) on an amount given in hundredths
FormatPrice(c) ==
    Itoa(c \div 100) \o <<".">> \o <<Digits[((c % 100) \div 10) + 1]>>
                     \o <<Digits[(c % 10) + 1]>>

\* floatPtrToString with nil written as "0.00"
floatPtrToString_Zero(f) ==
    IF f = <<>> THEN FormatPrice(0) ELSE FormatPrice(f[1])

\* floatPtrToString; a *float64 is <<>> (nil) or <<amount in hundredths>>
floatPtrToString(f) ==
    IF f = <<>> THEN <<>> ELSE FormatPrice(f[1])

\* writeCSV, the record written for one entry (Tier stays a number:
\* fmt.Sprintf("%d") of an int)
CsvRecord(entry) ==
    [Label |-> entry.Label,
     Tier |-> entry.Tier,
     price_reg |-> floatPtrToString(entry.PriceReg),
     price_ren |-> floatPtrToString(entry.PriceRen),
     price_res |-> floatPtrToString(entry.PriceRes),
     currency |-> entry.Currency]

\* writeCSV: the records after the header
writeCSV(entries) == {CsvRecord(e) : e \in entries}

tagA == <<"a">>
tagB == <<"b">>

GenTagLists == {<<>>, <<tagA>>, <<tagB>>, <<tagA, tagB>>}

\* the trigger-tag lists of the model's tiers
TierTagLists == {<<>>, <<tagA>>, <<tagA, tagB>>}

\* the currency and the three prices a tier of the model can carry
GenPrices ==
    {[Currency |-> "USD", PriceReg |-> <<>>, PriceRen |-> <<>>, PriceRes |-> <<>>],
     [Currency |-> "EUR", PriceReg |-> <<1050>>, PriceRen |-> <<>>, PriceRes |-> <<0>>]}

\* the tiers a tiers.json of the model can hold
GenTiers ==
    {[Tier |-> n, Tags |-> ts, Currency |-> p.Currency,
      PriceReg |-> p.PriceReg, PriceRen |-> p.PriceRen, PriceRes |-> p.PriceRes] :
       n \in (0 - MaxNegTier)..MaxTierId, ts \in TierTagLists, p \in GenPrices}

InitGenerate ==
    /\ gLabels \in [{sApple, sBanana} -> GenTagLists]
    /\ gTiers \in UNION {[1..n -> GenTiers] : n \in 0..MaxTiers}
    /\ gEntries = {}
    /\ gCsv = {}
    /\ gDone = FALSE
    /\ cmd = NoCmd
    /\ xl = NoSplit
    /\ bulk = NoBulk
    /\ vLabel = <<>>
    /\ vErr = "none"
    /\ idnaValid = {}
    /\ file = <<>>
    /\ batchSize = 1
    /\ autoTag = FALSE
    /\ filenameTag = <<>>
    /\ db = EmptyDB
    /\ imp = IdleImp
    /\ rets = <<>>
    /\ runs = 0
    /\ faults = 0

\* a call GeneratePremiumList on the loaded tiers and labels
Generate ==
    /\ ~gDone
    /\ gEntries' = MatchEntries(gLabels, gTiers)
    /\ gCsv' = writeCSV(MatchEntries(gLabels, gTiers))
    /\ gDone' = TRUE
    /\ UNCHANGED <<gLabels, gTiers, valVars, idnaValid, xl, bulk, impVars, cmd>>

NextGenerate == Generate

SpecGenerate == InitGenerate /\ [][NextGenerate]_vars
(***************************************************************************)
(* The commands import, tag and generate, run one after the other on the   *)
(* same store                                                              *)
(***************************************************************************)
MaxCmds == 2

\* strings.TrimSuffix
TrimSuffix(str, suffix) ==
    IF HasSuffix(str, suffix) THEN SubSeq(str, 1, Len(str) - Len(suffix)) ELSE str

dotCsv == <<".","c","s","v">>
dotCSV == <<".","C","S","V">>

\* runImport: the entry is taken when its name ends in .csv in any case
IsCsvName(name) == HasSuffix(ToLower(name), dotCsv)

\* runImport: filenameTag, the name minus a trailing ".csv", then ".CSV"
FilenameTagOf(csvFile) == TrimSuffix(TrimSuffix(csvFile, dotCsv), dotCSV)

\* runImport: csvFiles, the entries of the folder that are taken
CsvFilesOf(entries) == SelectSeq(entries, LAMBDA e : IsCsvName(e.name))

nameA == <<"a",".","c","s","v">>
nameB == <<"b",".","C","s","v">>
nameC == <<"c",".","C","S","V">>
nameD == <<"d",".","t","x","t">>

CmdContents == {<<>>, <<Rec(sApple)>>, <<Rec(sBanana), Rec(sApple)>>}

\* os.ReadDir: the entries of a folder, sorted by name
DirOf(hasA, rowsA, hasB, rowsB, hasC, rowsC) ==
    (IF hasA THEN <<[name |-> nameA, rows |-> rowsA]>> ELSE <<>>)
      \o (IF hasB THEN <<[name |-> nameB, rows |-> rowsB]>> ELSE <<>>)
      \o (IF hasC THEN <<[name |-> nameC, rows |-> rowsC]>> ELSE <<>>)
      \o <<[name |-> nameD, rows |-> <<>>]>>

Dirs == {DirOf(hasA, rowsA, hasB, rowsB, hasC, rowsC) :
           hasA \in BOOLEAN, rowsA \in CmdContents,
           hasB \in BOOLEAN, rowsB \in CmdContents,
           hasC \in BOOLEAN, rowsC \in CmdContents}

\* runImport up to the first ImportCSV call; without a CSV file it returns
\* an error, which main prints on stderr before os.Exit(1)
RunImportBegin ==
    /\ cmd.pc = "shell"
    /\ cmd.n < MaxCmds
    /\ \E entries \in Dirs :
         LET csvFiles == CsvFilesOf(entries)
         IN  /\ runs + Len(csvFiles) <= MaxRuns
             /\ IF Len(csvFiles) = 0
                 THEN /\ cmd' = [cmd EXCEPT !.csvFiles = <<>>, !.i = 0,
                                            !.FilesProcessed = 0, !.FilesSkipped = 0,
                                            !.n = @ + 1, !.last = "import",
                                            !.exit = 1, !.stderr = TRUE]
                      /\ UNCHANGED <<file, filenameTag, autoTag>>
                 ELSE /\ cmd' = [cmd EXCEPT !.pc = "call", !.csvFiles = csvFiles, !.i = 1,
                                            !.FilesProcessed = 0, !.FilesSkipped = 0,
                                            !.exit = -1, !.stderr = FALSE]
                      /\ file' = csvFiles[1].rows
                      /\ filenameTag' = FilenameTagOf(csvFiles[1].name)
                      /\ autoTag' = TRUE
    /\ UNCHANGED <<db, batchSize, imp, rets, runs, faults, idnaValid, xl, bulk, valVars, genVars>>

\* runImport after ImportCSV returned: an error is printed on stdout and the
\* loop goes on with the next file; after the last file the summary is
\* printed and runImport returns nil
RunImportAfter ==
    /\ cmd.pc = "wait"
    /\ imp.pc = "idle"
    /\ LET c1 == IF rets[Len(rets)].status = "err"
                 THEN [cmd EXCEPT !.FilesSkipped = @ + 1]
                 ELSE [cmd EXCEPT !.FilesProcessed = @ + 1]
       IN  IF cmd.i < Len(cmd.csvFiles)
           THEN /\ cmd' = [c1 EXCEPT !.pc = "call", !.i = @ + 1]
                /\ file' = cmd.csvFiles[cmd.i + 1].rows
                /\ filenameTag' = FilenameTagOf(cmd.csvFiles[cmd.i + 1].name)
                /\ UNCHANGED autoTag
           ELSE /\ cmd' = [c1 EXCEPT !.pc = "shell", !.n = @ + 1, !.last = "import",
                                     !.exit = 0, !.stderr = FALSE]
                /\ UNCHANGED <<file, filenameTag, autoTag>>
    /\ UNCHANGED <<db, batchSize, imp, rets, runs, faults, idnaValid, xl, bulk, valVars, genVars>>

\* InsertLabel: INSERT OR IGNORE INTO labels; [db, id]
InsertLabel(d, label, length) ==
    IF LabelIDOf(d, label) # 0 THEN [db |-> d, id |-> LabelIDOf(d, label)]
    ELSE [db |-> [d EXCEPT !.labels = Append(@, [label |-> label, length |-> length])],
          id |-> Len(d.labels) + 1]

\* GetOrCreateTag: [db, id]
GetOrCreateTag(d, tagName) ==
    IF TagIDOf(d, tagName) # 0 THEN [db |-> d, id |-> TagIDOf(d, tagName)]
    ELSE [db |-> [d EXCEPT !.tags = Append(@, tagName)], id |-> Len(d.tags) + 1]

\* AddTagToLabel as INSERT OR REPLACE keyed by the label
AddTagToLabel_Replace(d, labelID, tagID) ==
    [d EXCEPT !.label_tags = {p \in @ : p[1] # labelID} \cup {<<labelID, tagID>>}]

\* AddTagToLabel: INSERT OR IGNORE INTO label_tags
AddTagToLabel(d, labelID, tagID) ==
    [d EXCEPT !.label_tags = @ \cup {<<labelID, tagID>>}]

\* runTag, the loop over the tag arguments
RECURSIVE AddTagArgs(_, _, _, _)
AddTagArgs(d, labelID, tags, i) ==
    IF i > Len(tags) THEN d
    ELSE LET t == GetOrCreateTag(d, tags[i])
         IN  AddTagArgs(AddTagToLabel(t.db, labelID, t.id), labelID, tags, i + 1)

\* the arguments <<label, tags>> of the tag commands of the model
TagCmdArgs ==
    {<<sAPPLE, <<sWords>>>>, <<sApple, <<tagA, tagB>>>>,
     <<sBanana, <<<<"a",",","b">>>>>>}

\* runTag: look the label up, create it when it is not there (as given, with
\* len(label)), then get or create each tag and attach it
RunTag ==
    /\ cmd.pc = "shell"
    /\ cmd.n < MaxCmds
    /\ \E a \in TagCmdArgs :
         LET label == a[1]
             tags == a[2]
             ins == IF LabelIDOf(db, label) # 0
                    THEN [db |-> db, id |-> LabelIDOf(db, label)]
                    ELSE InsertLabel(db, label, Len(label))
         IN  db' = AddTagArgs(ins.db, ins.id, tags, 1)
    /\ cmd' = [cmd EXCEPT !.n = @ + 1, !.last = "tag", !.exit = 0, !.stderr = FALSE]
    /\ UNCHANGED <<file, batchSize, autoTag, filenameTag, imp, rets, runs, faults,
                   idnaValid, xl, bulk, valVars, genVars>>

\* strings.Split(s, ",")
RECURSIVE SplitComma(_)
SplitComma(str) ==
    IF \E i \in DOMAIN str : str[i] = ","
    THEN LET k == CHOOSE i \in DOMAIN str :
                    str[i] = "," /\ \A j \in 1..(i - 1) : str[j] # ","
         IN  <<SubSeq(str, 1, k - 1)>> \o SplitComma(SubSeq(str, k + 1, Len(str)))
    ELSE <<str>>

\* splitTags
splitTags(str) ==
    IF str = <<>> THEN <<>>
    ELSE LET parts == SplitComma(str)
         IN  SelectSeq([i \in DOMAIN parts |-> TrimSpace(parts[i])],
                       LAMBDA t : t # <<>>)

\* the elements of a set of numbers in increasing order
RECURSIVE SortedSeq(_)
SortedSeq(S) ==
    IF S = {} THEN <<>>
    ELSE LET m == CHOOSE x \in S : \A y \in S : x <= y
         IN  <<m>> \o SortedSeq(S \ {m})

\* GROUP_CONCAT(t.name): the names joined by commas
RECURSIVE JoinComma(_)
JoinComma(names) ==
    IF names = <<>> THEN <<>>
    ELSE IF Len(names) = 1 THEN names[1]
    ELSE names[1] \o <<",">> \o JoinComma(Tail(names))

\* the tags column of GetAllLabelsWithTags for one label; SQLite leaves the
\* order of GROUP_CONCAT open and the matcher does not depend on it, the
\* model takes the order of the tag ids
GroupConcatTags(d, labelID) ==
    LET ids == SortedSeq({p[2] : p \in {q \in d.label_tags : q[1] = labelID}})
    IN  JoinComma([i \in DOMAIN ids |-> d.tags[ids[i]]])

\* GetAllLabelsWithTags: label -> tags
GetAllLabelsWithTags(d) ==
    [l \in LabelTexts(d) |->
       LET tagsStr == GroupConcatTags(d, LabelIDOf(d, l))
       IN  IF tagsStr = <<>> THEN <<>>
           ELSE SelectSeq(splitTags(tagsStr), LAMBDA t : t # <<>>)]

\* the tiers.json of the generate commands of the model
CmdTiers ==
    {<<[Tier |-> 1, Tags |-> <<tagA>>, Currency |-> "EUR",
        PriceReg |-> <<1050>>, PriceRen |-> <<>>, PriceRes |-> <<0>>]>>}

\* runGenerate: GeneratePremiumList in the default format
RunGenerate ==
    /\ cmd.pc = "shell"
    /\ cmd.n < MaxCmds
    /\ \E tiers \in CmdTiers :
         /\ gTiers' = tiers
         /\ gLabels' = GetAllLabelsWithTags(db)
         /\ gEntries' = MatchEntries(GetAllLabelsWithTags(db), tiers)
         /\ gCsv' = writeCSV(MatchEntries(GetAllLabelsWithTags(db), tiers))
         /\ gDone' = TRUE
    /\ cmd' = [cmd EXCEPT !.n = @ + 1, !.last = "generate",
                          !.exit = 0, !.stderr = FALSE]
    /\ UNCHANGED <<impVars, idnaValid, xl, bulk, valVars>>

InitCmds ==
    /\ cmd = [NoCmd EXCEPT !.pc = "shell"]
    /\ xl = NoSplit
    /\ bulk = NoBulk
    /\ batchSize \in {1, MaxBatch}
    /\ file = <<>>
    /\ autoTag = TRUE
    /\ filenameTag = <<>>
    /\ idnaValid = {}
    /\ db = EmptyDB
    /\ imp = IdleImp
    /\ rets = <<>>
    /\ runs = 0
    /\ faults = 0
    /\ vLabel = <<>>
    /\ vErr = "none"
    /\ gLabels = <<>>
    /\ gTiers = <<>>
    /\ gEntries = {}
    /\ gCsv = {}
    /\ gDone = FALSE

NextCmds ==
    \/ RunImportBegin \/ StartImport \/ ReadRecord \/ ReadEOF \/ ReturnImport
    \/ RunImportAfter \/ RunTag \/ RunGenerate

SpecCmds == InitCmds /\ [][NextCmds]_vars

(***************************************************************************)
(* SplitXLSX: one CSV per sheet, or per sheet and tier in the "andy"       *)
(* format.  A sheet is its name and the rows GetRows returns; the output   *)
(* directory is a map from file name to the rows written to that file.     *)
(***************************************************************************)
MaxSheets == 2
MaxDataRows == 3

MapGet(m, k) == IF k \in DOMAIN m THEN m[k] ELSE <<>>

\* strconv.Atoi: an optional sign, then decimal digits only; <<>> is the
\* error result, <<n>> the number
RECURSIVE DigitsVal(_)
DigitsVal(d) ==
    IF d = <<>> THEN 0
    ELSE 10 * DigitsVal(SubSeq(d, 1, Len(d) - 1))
           + (CHOOSE n \in 0..9 : Digits[n + 1] = d[Len(d)])

Atoi(s) ==
    LET signed == Len(s) > 0 /\ s[1] \in {"+", "-"}
        d      == IF signed THEN Tail(s) ELSE s
    IN  IF d = <<>> \/ \E i \in DOMAIN d : d[i] \notin Range(Digits) THEN <<>>
        ELSE IF s[1] = "-" THEN <<0 - DigitsVal(d)>>
        ELSE <<DigitsVal(d)>>

\* fmt.Sprintf("%d", n)
FormatInt(n) == IF n < 0 THEN <<"-">> \o Itoa(0 - n) ELSE Itoa(n)

\* strings.Trim(s, cutset): drop the leading and trailing bytes of cutset
Trim(s, cutset) ==
    LET idx == {i \in DOMAIN s : s[i] \notin cutset}
    IN  IF idx = {} THEN <<>>
        ELSE SubSeq(s, CHOOSE i \in idx : \A j \in idx : i <= j,
                       CHOOSE i \in idx : \A j \in idx : i >= j)

\* sanitizeSheetName
sanitizeSheetName(name) ==
    LET invalidChars == {"<", ">", ":", "\"", "/", "\\", "|", "?", "*"}
        replaced  == [i \in DOMAIN name |->
                        IF name[i] \in invalidChars THEN "_" ELSE name[i]]
        sanitized == Trim(replaced, {" ", "."})
    IN  IF sanitized = <<>> THEN <<"s","h","e","e","t">> ELSE sanitized

\* filepath.Ext: from the last dot of the last path element
Ext(path) ==
    LET dots == {i \in DOMAIN path :
                   /\ path[i] = "."
                   /\ \A j \in i..Len(path) : path[j] # "/"}
    IN  IF dots = {} THEN <<>>
        ELSE SubSeq(path, CHOOSE i \in dots : \A j \in dots : j <= i, Len(path))

\* labelPattern: ^[a-zA-Z0-9][a-zA-Z0-9.-]*[a-zA-Z0-9]$|^[a-zA-Z0-9]$
labelPattern(s) ==
    LET AlphaNum == Range(LowerLetters) \cup Range(UpperLetters) \cup Range(Digits)
    IN  /\ Len(s) >= 1
        /\ s[1] \in AlphaNum
        /\ s[Len(s)] \in AlphaNum
        /\ \A i \in DOMAIN s : s[i] \in AlphaNum \cup {".", "-"}

\* isValidLabelSheet
isValidLabelSheet(rows) ==
    IF Len(rows) = 0 THEN FALSE
    ELSE LET startRow == IF Len(rows[1]) > 0 /\ isHeaderRow(TrimSpace(rows[1][1]))
                         THEN 1 ELSE 0
             checked  == {i \in (startRow + 1)..Len(rows) : i <= startRow + 10}
         IN  /\ startRow < Len(rows)
             /\ \E i \in checked :
                  /\ Len(rows[i]) > 0
                  /\ TrimSpace(rows[i][1]) # <<>>
                  /\ labelPattern(TrimSpace(rows[i][1]))

\* writeSheetToCSV: the rows the file holds; a row without cells is written
\* as one empty cell
writeSheetToCSV(rows) ==
    [i \in DOMAIN rows |-> IF Len(rows[i]) = 0 THEN <<<<>>>> ELSE rows[i]]

\* SplitXLSX: the index (from 0) of the tier column, -1 when there is none
TierColumn(rows) ==
    IF Len(rows) = 0 THEN -1
    ELSE LET hits == {i \in DOMAIN rows[1] :
                        ToLower(TrimSpace(rows[1][i]))
                          = ToLower(<<"T","i","e","r"," ","L","e","v","e","l">>)}
         IN  IF hits # {} THEN (CHOOSE i \in hits : \A j \in hits : i <= j) - 1
             ELSE IF Len(rows[1]) > 5 THEN 5
             ELSE -1

\* a bug: a row too short to hold the tier cell is dropped
SplitRow_DropShort(st, row, tierColIdx) ==
    LET val  == TrimSpace(row[tierColIdx + 1])
        tier == Atoi(val)
        null == [st EXCEPT !.nullTierRows = Append(@, row)]
    IN  IF Len(row) <= tierColIdx THEN st
        ELSE IF \/ val = <<>> \/ val = <<"0">>
                \/ ToLower(val) = ToLower(<<"n","u","l","l">>) THEN null
        ELSE IF tier = <<>> THEN null
        ELSE [st EXCEPT !.minTier = IF tier[1] < @ THEN tier[1] ELSE @,
                        !.tiers = MapPut(@, tier[1], Append(MapGet(@, tier[1]), row))]

\* splitSheetByTier: one iteration of the loop over dataRows
SplitRow(st, row, tierColIdx) ==
    LET val  == TrimSpace(row[tierColIdx + 1])
        tier == Atoi(val)
        null == [st EXCEPT !.nullTierRows = Append(@, row)]
    IN  IF Len(row) <= tierColIdx THEN null
        ELSE IF \/ val = <<>> \/ val = <<"0">>
                \/ ToLower(val) = ToLower(<<"n","u","l","l">>) THEN null
        ELSE IF tier = <<>> THEN null
        ELSE [st EXCEPT !.minTier = IF tier[1] < @ THEN tier[1] ELSE @,
                        !.tiers = MapPut(@, tier[1], Append(MapGet(@, tier[1]), row))]

RECURSIVE SplitLoop(_, _, _, _)
SplitLoop(dataRows, i, st, tierColIdx) ==
    IF i > Len(dataRows) THEN st
    ELSE SplitLoop(dataRows, i + 1, SplitRow(st, dataRows[i], tierColIdx), tierColIdx)

\* the name of the CSV file of a tier of a sheet
TierFilename(sheetName, tier) ==
    sanitizeSheetName(sheetName) \o <<" ","-"," ","t","i","e","r"," ">>
      \o FormatInt(tier) \o dotCsv

\* splitSheetByTier: the files it writes (name -> rows) and the map it
\* returns (tier -> file name)
splitSheetByTier(rows, sheetName, tierColIdx) ==
    IF Len(rows) = 0 THEN [files |-> <<>>, foundTiers |-> <<>>]
    ELSE LET header   == rows[1]
             dataRows == Tail(rows)
             st       == SplitLoop(dataRows, 1,
                           [tiers |-> <<>>, nullTierRows |-> <<>>, minTier |-> 100],
                           tierColIdx)
             minTier  == IF st.minTier = 100 THEN 1 ELSE st.minTier
             tiers    == IF Len(st.nullTierRows) > 0
                         THEN MapPut(st.tiers, minTier,
                                     MapGet(st.tiers, minTier) \o st.nullTierRows)
                         ELSE st.tiers
             names    == {TierFilename(sheetName, t) : t \in DOMAIN tiers}
             tierOf(f) == CHOOSE t \in DOMAIN tiers : TierFilename(sheetName, t) = f
         IN  [files      |-> [f \in names |->
                                writeSheetToCSV(<<header>> \o tiers[tierOf(f)])],
              foundTiers |-> [t \in DOMAIN tiers |-> TierFilename(sheetName, t)]]

\* the bytes of the names SplitXLSX builds, in increasing order
ByteOrder == <<" ", "-", ".">> \o Digits \o <<"_">> \o LowerLetters

\* s < t for Go strings
RECURSIVE StrLess(_, _)
StrLess(s, t) ==
    IF t = <<>> THEN FALSE
    ELSE IF s = <<>> THEN TRUE
    ELSE IF s[1] # t[1]
      THEN (CHOOSE i \in DOMAIN ByteOrder : ByteOrder[i] = s[1])
             < (CHOOSE i \in DOMAIN ByteOrder : ByteOrder[i] = t[1])
    ELSE StrLess(Tail(s), Tail(t))

\* sort.Strings on a set of distinct strings
RECURSIVE SortStrings(_)
SortStrings(S) ==
    IF S = {} THEN <<>>
    ELSE LET m == CHOOSE x \in S : \A y \in S \ {x} : StrLess(x, y)
         IN  <<m>> \o SortStrings(S \ {m})

\* the tier numbers of a map in decreasing order
RECURSIVE SortDesc(_)
SortDesc(S) ==
    IF S = {} THEN <<>>
    ELSE LET m == CHOOSE x \in S : \A y \in S : y <= x
         IN  <<m>> \o SortDesc(S \ {m})

\* generateTiersJSON: the TierConfig list it encodes
generateTiersJSON(foundTiers) ==
    LET order == SortDesc(DOMAIN foundTiers)
    IN  [k \in DOMAIN order |->
           [Tier |-> order[k], Tags |-> SortStrings(Range(foundTiers[order[k]]))]]

\* for tier, filename := range tiersInSheet { foundTiers[tier] = append(...) }
CollectTiers(foundTiers, tiersInSheet) ==
    [t \in DOMAIN foundTiers \cup DOMAIN tiersInSheet |->
       IF t \in DOMAIN tiersInSheet
       THEN Append(MapGet(foundTiers, t),
                   TrimSuffix(tiersInSheet[t], Ext(tiersInSheet[t])))
       ELSE foundTiers[t]]

\* Workbooks.  Row k of a sheet holds the label a..a (k letters) in its
\* first column and, when the row reaches that far, a tier cell in the last
\* column of the header.
HdrPlain == <<<<"L","a","b","e","l">>>>
HdrTier == HdrPlain \o <<<<"T","i","e","r"," ","L","e","v","e","l">>>>
HdrWide == HdrPlain \o <<<<"b">>, <<"c">>, <<"d">>, <<"e">>, <<"f">>>>

\* a tier cell, or <<>> for a row that ends before the tier column
TierCellChoices ==
    {<<>>, <<<<>>>>, <<<<"0">>>>, <<<<"N","U","L","L">>>>, <<<<"x">>>>,
     <<<<" ","5"," ">>>>, <<<<"1","0">>>>, <<<<"1","0","0">>>>,
     <<<<"1","5","0">>>>, <<<<"-","1">>>>}

SheetOf(name, header, cells) ==
    [name |-> name,
     rows |-> <<header>> \o
                [k \in DOMAIN cells |->
                   IF cells[k] = <<>> THEN <<Rep("a", k)>>
                   ELSE <<Rep("a", k)>> \o Rep(<<>>, Len(header) - 2) \o cells[k]]]

\* one-sheet workbooks take any tier cells; workbooks of several sheets take
\* their sheets from SmallSheets
RichSheets ==
    {SheetOf(<<"s">>, h, cells) :
        h \in {HdrTier, HdrWide},
        cells \in UNION {[1..n -> TierCellChoices] : n \in 1..MaxDataRows}}

SmallSheets ==
    {SheetOf(n, HdrTier, cells) :
        n \in {<<"s">>, <<"s",".">>, <<"t","<">>},
        cells \in {<<<<<<"5">>>>>>, <<<<<<"1","0">>>>, <<<<>>>>, <<<<"5">>>>>>}}
    \cup {SheetOf(<<"s">>, HdrPlain, <<<<>>>>),
          SheetOf(<<"t","<">>, HdrTier, <<>>),
          [name |-> <<"t","<">>, rows |-> <<HdrTier, <<<<"_">>, <<"5">>>>>>]}

Workbooks ==
    {<<>>} \cup {<<sh>> : sh \in RichSheets}
    \cup {wb \in UNION {[1..n -> SmallSheets] : n \in 1..MaxSheets} :
            \A i, j \in DOMAIN wb : i # j => wb[i].name # wb[j].name}

InitSplit ==
    /\ xl \in {[NoSplit EXCEPT !.pc = "call", !.sheets = wb, !.format = f] :
                 wb \in Workbooks, f \in {"andy", "default"}}
    /\ bulk = NoBulk
    /\ vLabel = <<>>
    /\ vErr = "none"
    /\ idnaValid = {}
    /\ db = EmptyDB
    /\ file = <<>>
    /\ batchSize = 1
    /\ autoTag = FALSE
    /\ filenameTag = <<>>
    /\ imp = IdleImp
    /\ rets = <<>>
    /\ runs = 0
    /\ faults = 0
    /\ gLabels = <<>>
    /\ gTiers = <<>>
    /\ gEntries = {}
    /\ gCsv = {}
    /\ gDone = FALSE
    /\ cmd = NoCmd

\* SplitXLSX up to its loop over the sheets
SplitOpen ==
    /\ xl.pc = "call"
    /\ xl' = IF Len(xl.sheets) = 0
             THEN [xl EXCEPT !.pc = "done", !.err = TRUE]
             ELSE [xl EXCEPT !.pc = "loop", !.i = 1]
    /\ UNCHANGED <<idnaValid, valVars, impVars, genVars, cmd, bulk>>

\* SplitXLSX: one iteration of the loop over sheetList
SplitSheet ==
    /\ xl.pc = "loop"
    /\ xl.i <= Len(xl.sheets)
    /\ LET sheetName  == xl.sheets[xl.i].name
           rows       == xl.sheets[xl.i].rows
           tierColIdx == TierColumn(rows)
           out        == splitSheetByTier(rows, sheetName, tierColIdx)
           outputFile == sanitizeSheetName(sheetName) \o dotCsv
       IN  xl' = IF ~isValidLabelSheet(rows)
                 THEN [xl EXCEPT !.i = @ + 1,
                                 !.skipped = Append(@, sheetName)]
                 ELSE IF xl.format = "andy" /\ tierColIdx # -1
                 THEN [xl EXCEPT !.i = @ + 1,
                                 !.files = MapMerge(@, out.files),
                                 !.foundTiers = CollectTiers(@, out.foundTiers),
                                 !.calls = Append(@, [sheet |-> xl.i,
                                                      tierColIdx |-> tierColIdx,
                                                      files |-> out.files,
                                                      foundTiers |-> out.foundTiers]),
                                 !.processed = Append(@, sheetName)]
                 ELSE [xl EXCEPT !.i = @ + 1,
                                 !.files = MapPut(@, outputFile, writeSheetToCSV(rows)),
                                 !.processed = Append(@, sheetName)]
    /\ UNCHANGED <<idnaValid, valVars, impVars, genVars, cmd, bulk>>

\* SplitXLSX after the loop: the tiers JSON, the summary, return nil
SplitReturn ==
    /\ xl.pc = "loop"
    /\ xl.i > Len(xl.sheets)
    /\ xl' = [xl EXCEPT !.pc = "done",
                        !.json = IF xl.format = "andy" /\ DOMAIN xl.foundTiers # {}
                                 THEN generateTiersJSON(xl.foundTiers)
                                 ELSE <<>>]
    /\ UNCHANGED <<idnaValid, valVars, impVars, genVars, cmd, bulk>>

SpecSplit == InitSplit /\ [][SplitOpen \/ SplitSheet \/ SplitReturn]_vars

(***************************************************************************)
(* BulkInsertLabels on its own: one call inside an open transaction, with  *)
(* the id map ImportCSV keeps (every label of the store and no other).     *)
(***************************************************************************)
MaxBulk == 5
MaxStored == 2

BulkTexts == {<<"a">>, <<"b">>, <<"c","c">>, <<"d">>}

LabelDataOf(text) == [label |-> text, length |-> Len(text)]

BulkBatches ==
    UNION {[1..n -> {LabelDataOf(x) : x \in BulkTexts}] : n \in 0..MaxBulk}

BulkStores ==
    {[EmptyDB EXCEPT !.labels = ls] :
       ls \in {s \in UNION {[1..n -> {LabelDataOf(x) : x \in BulkTexts}] :
                              n \in 0..MaxStored} :
                 \A i, j \in DOMAIN s : i # j => s[i] # s[j]}}

InitBulk ==
    /\ bulk \in {[NoBulk EXCEPT !.pc = "call", !.rows = r,
                                !.tx = BeginTransaction(d), !.labels = b,
                                !.existingLabelMap = LoadAllLabelIDs(d)] :
                   r \in {ChunkRows, maxRowsPerInsert},
                   d \in BulkStores, b \in BulkBatches}
    /\ xl = NoSplit
    /\ vLabel = <<>>
    /\ vErr = "none"
    /\ idnaValid = {}
    /\ db = EmptyDB
    /\ file = <<>>
    /\ batchSize = 1
    /\ autoTag = FALSE
    /\ filenameTag = <<>>
    /\ imp = IdleImp
    /\ rets = <<>>
    /\ runs = 0
    /\ faults = 0
    /\ gLabels = <<>>
    /\ gTiers = <<>>
    /\ gEntries = {}
    /\ gCsv = {}
    /\ gDone = FALSE
    /\ cmd = NoCmd

\* the call db.BulkInsertLabels(tx, batch, existingLabelMap)
DoBulk ==
    /\ bulk.pc = "call"
    /\ bulk' = [bulk EXCEPT !.pc = "done",
                            !.result = BulkInsertLabelsBy(bulk.rows, bulk.tx,
                                          bulk.labels, bulk.existingLabelMap)]
    /\ UNCHANGED <<idnaValid, valVars, impVars, genVars, cmd, xl>>

SpecBulk == InitBulk /\ [][DoBulk]_vars

(***************************************************************************)
(* Properties                                                              *)
(***************************************************************************)
SetMax(S) == CHOOSE x \in S : \A y \in S : y <= x

\* the identifiers of the tiers whose tags intersect the label's tags
MatchingTierIds(labelTags, tiers) ==
    {tiers[i].Tier : i \in {j \in DOMAIN tiers :
                              Range(tiers[j].Tags) \cap Range(labelTags) # {}}}

\* C1: after generate, every label whose tags intersect some tier's tags has
\* exactly one entry, whose tier is the greatest identifier among the
\* matching tiers, and a label is left out only when no tier matches.
C1_MaxTierWins ==
    gDone =>
      \A l \in DOMAIN gLabels :
        LET M == MatchingTierIds(gLabels[l], gTiers)
            es == {e \in gEntries : e.Label = l}
        IN  IF M = {} THEN es = {}
            ELSE Cardinality(es) = 1 /\ \A e \in es : e.Tier = SetMax(M)

C2File == <<Rec(sSTRING), Rec(sApple), Rec(sBanana), Rec(sApple)>>

\* C2: importing STRING, apple, banana, apple with auto-tag into the empty
\* store (all accepted rows in one batch, as in the source where the batch
\* holds 10000 rows) returns Imported = 2, NewLabels = 2, ExistingLabels = 0,
\* Skipped = 2.
C2_ExampleStats ==
    (/\ file = C2File /\ autoTag /\ batchSize >= 3
     /\ Len(rets) = 1 /\ rets[1].status = "ok")
      => /\ rets[1].stats.Imported = 2
         /\ rets[1].stats.NewLabels = 2
         /\ rets[1].stats.ExistingLabels = 0
         /\ rets[1].stats.Skipped = 2

LabelAlphabet == Range(LowerLetters) \cup Range(Digits) \cup {"-"}

\* the five conditions of the validator's contract, in its order
C3_LengthOk(L) == Len(L) \in LabelMinLen..LabelMaxLen
C3_AlphabetOk(L) == Range(L) \subseteq LabelAlphabet
C3_BoundaryOk(L) == L[1] # "-" /\ L[Len(L)] # "-"
C3_HyphenOk(L) ==
    (Len(L) >= 4 /\ L[3] = "-" /\ L[4] = "-") => SubSeq(L, 1, 4) = AcePrefix
C3_AceOk(L) ==
    (Len(L) >= 4 /\ SubSeq(L, 1, 4) = AcePrefix) => L \in idnaValid

C3_FirstFailure(L) ==
    CASE ~C3_LengthOk(L) -> "ErrInvalidLabelLength"
      [] C3_LengthOk(L) /\ ~C3_AlphabetOk(L) -> "ErrLabelContainsInvalidCharacter"
      [] C3_LengthOk(L) /\ C3_AlphabetOk(L) /\ ~C3_BoundaryOk(L) -> "ErrInvalidLabelDash"
      [] C3_LengthOk(L) /\ C3_AlphabetOk(L) /\ C3_BoundaryOk(L) /\ ~C3_HyphenOk(L)
           -> "ErrInvalidLabelDoubleDash"
      [] OTHER -> "ErrInvalidLabelIDN"

C4_NoHeaderAfterAccept ==
    [][(imp.pc = "loop" /\ (Len(imp.batch) > 0 \/ imp.stats.Imported > 0))
         => (imp'.stats.HeaderSkipped = imp.stats.HeaderSkipped)]_vars

\* C5: when a commit fails during ImportCSV the call has stopped there and
\* returned the error together with the statistics gathered so far.
C5_CommitFailureAborts ==
    (\E i \in DOMAIN imp.txs : imp.txs[i].state = "failed")
      => /\ imp.pc = "idle"
         /\ rets[Len(rets)].status = "err"
         /\ rets[Len(rets)].stats # "nil"

\* the store as sets: label rows, tag names, and associations by text/name
StoreSets(d) ==
    [labels |-> Range(d.labels),
     tags |-> Range(d.tags),
     label_tags |-> {<<d.labels[p[1]].label, d.tags[p[2]]>> : p \in d.label_tags}]

\* C6: when ImportCSV runs twice on the same file, the second run reports
\* NewLabels = 0 and ExistingLabels = Imported, and leaves the sets of
\* labels, tags and associations of the store as the first run left them.
\* (Evaluated where the second call has returned and no later one runs; the
\* record of the returns does not change in between.)
C6_SecondRunIdempotent ==
    (imp.pc = "idle" /\ Len(rets) = 2 /\ rets[1].status = "ok" /\ rets[2].status = "ok")
      => /\ rets[2].stats.NewLabels = 0
         /\ rets[2].stats.ExistingLabels = rets[2].stats.Imported
         /\ StoreSets(rets[2].db) = StoreSets(rets[1].db)

\* a second run that accepted rows, one label more than once
C6_Witness ==
    /\ Len(rets) = 2 /\ rets[1].status = "ok" /\ rets[2].status = "ok"
    /\ rets[2].stats.Imported > Cardinality(LabelTexts(rets[2].db))
    /\ rets[2].db.label_tags # {}

\* the text ImportCSV derives from a record
Norm(r) == ToLower(TrimSpace(r.field))

Occurrences(l) == {i \in DOMAIN file : ~file[i].bad /\ Norm(file[i]) = l}

\* the valid label texts that occur more than once in the file
DupTexts ==
    {l \in {Norm(file[i]) : i \in DOMAIN file} :
       /\ Cardinality(Occurrences(l)) > 1
       /\ ValidateLabel(l, l \in idnaValid) = "nil"}

\* the tags one accepted occurrence of l gives it
ExpectedTags(l) ==
    (IF autoTag THEN {GenerateLengthTag(Len(l))} ELSE {})
      \cup (IF filenameTag # <<>> THEN {filenameTag} ELSE {})

TagsOfLabel(d, l) ==
    {d.tags[p[2]] : p \in {q \in d.label_tags : d.labels[q[1]].label = l}}

\* C7: after a successful import into the empty store, a valid label text
\* that occurs several times in the file is stored in exactly one row, with
\* the tags a single occurrence gives it.  (Evaluated where the call has
\* returned and no later one runs.)
C7_OneRowPerText ==
    (imp.pc = "idle" /\ Len(rets) = 1 /\ rets[1].status = "ok") =>
      \A l \in DupTexts :
        /\ Cardinality({i \in DOMAIN rets[1].db.labels :
                          rets[1].db.labels[i].label = l}) = 1
        /\ TagsOfLabel(rets[1].db, l) = ExpectedTags(l)

\* a text repeated in two different batches has been imported
C7_Witness ==
    /\ Len(rets) = 1 /\ rets[1].status = "ok"
    /\ batchSize = 1 /\ autoTag
    /\ \E l \in DupTexts : l \in LabelTexts(rets[1].db)

DbBefore(k) == IF k = 1 THEN EmptyDB ELSE rets[k - 1].db

\* C8: ExistingLabels of a run counts only rows whose label was in the store
\* before the run started.
C8_ExistingOnlyPreexisting ==
    \A k \in DOMAIN rets :
      rets[k].status = "ok" =>
        rets[k].stats.ExistingLabels <=
          Cardinality({i \in DOMAIN file :
                         ~file[i].bad /\ Norm(file[i]) \in LabelTexts(DbBefore(k))})

\* C9: ValidateLabel rejects every label with two consecutive hyphens
\* anywhere, unless it is a valid IDN starting with xn--.
C9_NoConsecutiveHyphens ==
    (/\ vErr # "none"
     /\ \E i \in 1..(Len(vLabel) - 1) : vLabel[i] = "-" /\ vLabel[i + 1] = "-"
     /\ ~(HasPrefix(vLabel, AcePrefix) /\ vLabel \in idnaValid))
      => vErr # "nil"

\* C10 as stated: ValidateLabel("xn--") fails with the IDN error or the
\* length error and no other.
C10_PrefixAloneIDNOrLength ==
    (vLabel = AcePrefix /\ vErr # "none")
      => vErr \in {"ErrInvalidLabelIDN", "ErrInvalidLabelLength"}

\* C10: ValidateLabel("xn--") fails with the hyphen-placement error (the
\* text ends with '-'), whatever the IDNA decoder says.
C10_PrefixAloneDash ==
    (vLabel = AcePrefix /\ vErr # "none") => vErr = "ErrInvalidLabelDash"

\* "xn--" has been validated
C10_Witness == vLabel = AcePrefix /\ vErr = "ErrInvalidLabelDash"

\* the positions of the tiers whose tags intersect the label's tags
MatchingTiers(labelTags, tiers) ==
    {j \in DOMAIN tiers : Range(tiers[j].Tags) \cap Range(labelTags) # {}}

\* the currency and prices of a tier or of an entry
Pricing(x) == <<x.Currency, x.PriceReg, x.PriceRen, x.PriceRes>>

\* C11: when two matching tiers share the greatest identifier (here a
\* non-negative one), the label's entry carries the prices and currency of
\* the one that comes last in the definition order.
C11_LastOfTiedWins ==
    gDone =>
      \A l \in DOMAIN gLabels :
        LET M == MatchingTiers(gLabels[l], gTiers)
            top == {i \in M : \A j \in M : gTiers[j].Tier <= gTiers[i].Tier}
        IN  (Cardinality(top) >= 2 /\ \A i \in top : gTiers[i].Tier >= 0)
              => \A e \in gEntries :
                   e.Label = l => Pricing(e) = Pricing(gTiers[SetMax(top)])

\* C12: after generate, a label has exactly one entry when it shares a tag
\* with some tier and no entry otherwise.
C12_EntryIffSharedTag ==
    gDone =>
      \A l \in DOMAIN gLabels :
        Cardinality({e \in gEntries : e.Label = l})
          = (IF MatchingTiers(gLabels[l], gTiers) # {} THEN 1 ELSE 0)

\* the text of the amounts the model's tiers carry
C19_Text(c) ==
    CASE c = 1050 -> <<"1","0",".","5","0">>
      [] c = 0 -> <<"0",".","0","0">>

C19_PriceWritten(f, str) ==
    IF f = <<>> THEN str = <<>> ELSE str = C19_Text(f[1])

\* C19: every entry carries the identifier, currency and three prices of one
\* tier that matches its label, an absent price staying absent, and the
\* default CSV holds for it one record with each absent price written as the
\* empty string and each present price with two decimals.
C19_PricesCarried ==
    gDone =>
      /\ \A e \in gEntries :
            /\ \E i \in MatchingTiers(gLabels[e.Label], gTiers) :
                  gTiers[i].Tier = e.Tier /\ Pricing(gTiers[i]) = Pricing(e)
            /\ \E r \in gCsv :
                  /\ r.Label = e.Label /\ r.Tier = e.Tier /\ r.currency = e.Currency
                  /\ C19_PriceWritten(e.PriceReg, r.price_reg)
                  /\ C19_PriceWritten(e.PriceRen, r.price_ren)
                  /\ C19_PriceWritten(e.PriceRes, r.price_res)
      /\ Cardinality(gCsv) = Cardinality(gEntries)

\* an entry with a present and an absent price has been written
C19_Witness ==
    /\ gDone
    /\ \E e \in gEntries : e.PriceReg # <<>> /\ e.PriceRen = <<>>
    /\ \E r \in gCsv : r.price_reg # <<>> /\ r.price_ren = <<>>

\* the rows of the file that ImportCSV hands to the header test: read without
\* a parse error and not empty after trimming
C13_Candidate(rec) == ~rec.bad /\ Norm(rec) # <<>>

\* C13: while no header has been passed, a row is skipped as a header
\* (HeaderSkipped set, Skipped incremented, no error message) exactly when
\* its field is one of the header words in any case, or the raw field is
\* fully upper-case and longer than two characters.
C13_HeaderIffRawUpper ==
    [][(/\ imp.pc = "loop" /\ imp.pos < Len(file)
        /\ ~imp.stats.HeaderSkipped
        /\ C13_Candidate(file[imp.pos + 1]))
         => LET raw == file[imp.pos + 1].field
            IN  (/\ imp'.stats.HeaderSkipped
                 /\ imp'.stats.Skipped = imp.stats.Skipped + 1
                 /\ imp'.stats.Errors = imp.stats.Errors)
                  <=> (\/ ToLower(raw) \in headerKeywords
                       \/ (raw = ToUpper(raw) /\ Len(raw) > 2))]_vars

\* the row the read loop is about to take fails validation
C14_InvalidNext ==
    /\ imp.pc = "loop" /\ imp.pos < Len(file)
    /\ C13_Candidate(file[imp.pos + 1])
    /\ ~(~imp.stats.HeaderSkipped /\ isHeaderRow(Norm(file[imp.pos + 1])))
    /\ ValidateLabel(Norm(file[imp.pos + 1]), Norm(file[imp.pos + 1]) \in idnaValid) # "nil"

\* C14: a row that fails validation adds one to Skipped and one message with
\* its line number, text and error kind, changes neither the batch, the
\* other counters nor the store, and leaves the read loop running; no batch
\* ever holds an invalid label, and the loop is only left at the end of the
\* file.
C14_InvalidRowSkipped ==
    /\ [][C14_InvalidNext =>
            LET l == Norm(file[imp.pos + 1])
            IN  /\ imp'.pc = "loop" /\ imp'.pos = imp.pos + 1
                /\ imp'.stats.Skipped = imp.stats.Skipped + 1
                /\ imp'.stats.Errors =
                      Append(imp.stats.Errors,
                             [line |-> imp.pos + 1, label |-> l,
                              kind |-> ValidateLabel(l, l \in idnaValid)])
                /\ imp'.batch = imp.batch
                /\ imp'.stats.Imported = imp.stats.Imported
                /\ imp'.stats.HeaderSkipped = imp.stats.HeaderSkipped
                /\ db' = db /\ rets' = rets]_vars
    /\ [](/\ \A i \in DOMAIN imp.batch :
               ValidateLabel(imp.batch[i].label, imp.batch[i].label \in idnaValid) = "nil"
          /\ (imp.pc = "final" => imp.pos = Len(file)))

\* a file whose first row failed validation and whose last row was imported
C14_Witness ==
    /\ Len(rets) = 1 /\ rets[1].status = "ok"
    /\ Len(file) >= 2 /\ file[1] = Rec(sDashA) /\ file[Len(file)] = Rec(sApple)
    /\ \E i \in DOMAIN rets[1].stats.Errors :
          rets[1].stats.Errors[i] = [line |-> 1, label |-> sDashA, kind |-> "ErrInvalidLabelDash"]
    /\ sApple \in LabelTexts(rets[1].db)

\* C15: an import command in which ImportCSV returned an error for some file
\* (a store-level failure) ends with a non-zero exit status and a message on
\* stderr.
C15_FatalExitsNonZero ==
    (cmd.pc = "shell" /\ cmd.last = "import" /\ cmd.FilesSkipped > 0)
      => (cmd.exit # 0 /\ cmd.stderr)

\* a file name without its extension: the text before the last dot
C16_BaseName(name) ==
    LET dots == {i \in DOMAIN name : name[i] = "."}
    IN  IF dots = {} THEN name
        ELSE SubSeq(name, 1, (CHOOSE i \in dots : \A j \in dots : j <= i) - 1)

\* the labels ImportCSV accepts from the rows of a file of the command
C16_Accepted(rows) ==
    {Norm(rows[j]) : j \in {x \in DOMAIN rows :
        /\ ~rows[x].bad /\ ~isHeaderRow(Norm(rows[x]))
        /\ ValidateLabel(Norm(rows[x]), Norm(rows[x]) \in idnaValid) = "nil"}}

\* C16: when ImportCSV has returned for the i-th file of an import command,
\* every label accepted from a file of the command that was ingested
\* without error carries its length tag and the tag named after that file
\* without its extension.
C16_LengthAndFileTags ==
    (cmd.pc = "wait" /\ imp.pc = "idle") =>
      \A k \in 1..cmd.i :
        rets[Len(rets) - cmd.i + k].status = "ok" =>
          \A l \in C16_Accepted(cmd.csvFiles[k].rows) :
            {GenerateLengthTag(Len(l)), C16_BaseName(cmd.csvFiles[k].name)}
              \subseteq TagsOfLabel(db, l)

\* C17: every stored label text is lower-case, 1 to 63 characters over
\* a-z, 0-9 and '-', no text is stored twice, and the stored length is the
\* number of characters of the text.
C17_StoredLabelsWellFormed ==
    \A i \in DOMAIN db.labels :
      LET L == db.labels[i] IN
        /\ Len(L.label) \in LabelMinLen..LabelMaxLen
        /\ Range(L.label) \subseteq LabelAlphabet
        /\ L.length = Len(L.label)
        /\ \A j \in DOMAIN db.labels : db.labels[j].label = L.label => j = i

\* d2 holds every row of d, unchanged and under the same id
C20_Extends(d, d2) ==
    /\ Len(d.labels) <= Len(d2.labels)
    /\ SubSeq(d2.labels, 1, Len(d.labels)) = d.labels
    /\ Len(d.tags) <= Len(d2.tags)
    /\ SubSeq(d2.tags, 1, Len(d.tags)) = d.tags
    /\ d.label_tags \subseteq d2.label_tags

\* C20: every step of the import, tag and generate commands leaves each
\* stored label (text and length), tag and association in place, and a
\* generate command leaves the store as it was.
C20_StoreOnlyGrows ==
    [][/\ C20_Extends(db, db')
       /\ (cmd'.last = "generate" /\ cmd'.n = cmd.n + 1) => db' = db]_vars

\* after an import and a tag command the store holds labels, tags and
\* associations from both
C20_Witness ==
    /\ cmd.n = 2 /\ cmd.last = "tag" /\ Len(rets) > 0
    /\ Len(db.labels) >= 2
    /\ \E p \in db.label_tags : db.tags[p[2]] = sWords
    /\ \E p \in db.label_tags : db.tags[p[2]] = GenerateLengthTag(5)

\* the labels the read loop accepts from the rows, in the order of the file
RECURSIVE C18_Accept(_, _, _)
C18_Accept(rows, i, hdr) ==
    IF i > Len(rows) THEN <<>>
    ELSE LET l == Norm(rows[i]) IN
      IF rows[i].bad \/ l = <<>> THEN C18_Accept(rows, i + 1, hdr)
      ELSE IF ~hdr /\ isHeaderRow(l) THEN C18_Accept(rows, i + 1, TRUE)
      ELSE IF ValidateLabel(l, l \in idnaValid) # "nil" THEN C18_Accept(rows, i + 1, hdr)
      ELSE <<l>> \o C18_Accept(rows, i + 1, hdr)

\* a sequence without the repeats of its elements
RECURSIVE C18_Dedup(_)
C18_Dedup(q) ==
    IF q = <<>> THEN <<>>
    ELSE LET front == C18_Dedup(SubSeq(q, 1, Len(q) - 1))
         IN  IF q[Len(q)] \in Range(front) THEN front ELSE Append(front, q[Len(q)])

C18_Index(q, x) == CHOOSE i \in DOMAIN q : q[i] = x

\* The store an import into the empty store leaves, written without any
\* notion of batch: one row per accepted text in the order of first
\* occurrence; the tags len:1.. created up front, then the file tag, then
\* further length tags in the order of first use; each label tied to its
\* length tag and to the file tag.  Nothing is stored without an accepted row.
C18_ExpectedStore ==
    LET texts == C18_Dedup(C18_Accept(file, 1, FALSE))
        pre == IF autoTag THEN [i \in 1..PreLenTags |-> GenerateLengthTag(i)] ELSE <<>>
        ftag == IF filenameTag # <<>> THEN <<filenameTag>> ELSE <<>>
        lts == IF autoTag
               THEN C18_Dedup([i \in DOMAIN texts |-> GenerateLengthTag(Len(texts[i]))])
               ELSE <<>>
        tags == C18_Dedup(pre \o ftag \o lts)
    IN  IF texts = <<>> THEN EmptyDB
        ELSE [labels |-> [i \in DOMAIN texts |-> [label |-> texts[i], length |-> Len(texts[i])]],
              tags |-> tags,
              label_tags |->
                (IF autoTag
                 THEN {<<i, C18_Index(tags, GenerateLengthTag(Len(texts[i])))>> : i \in DOMAIN texts}
                 ELSE {})
                \cup (IF filenameTag # <<>>
                      THEN {<<i, C18_Index(tags, filenameTag)>> : i \in DOMAIN texts}
                      ELSE {})]

\* C18: an import of the file into the empty store that returns without
\* error leaves the same store whatever the batch size (1, or a size that
\* takes all records in one batch): the store that depends on the records
\* and the arguments only.  (Evaluated where the call has returned and no
\* later one runs.)
C18_BatchSizeIrrelevant ==
    (imp.pc = "idle" /\ Len(rets) = 1 /\ rets[1].status = "ok")
      => rets[1].db = C18_ExpectedStore

\* a file with exactly batchSize accepted rows, one text twice, has been
\* imported in one full batch
C18_Witness ==
    /\ Len(rets) >= 1 /\ rets[1].status = "ok"
    /\ batchSize = MaxBatch
    /\ Len(C18_Accept(file, 1, FALSE)) = MaxBatch
    /\ Len(C18_Dedup(C18_Accept(file, 1, FALSE))) = MaxBatch - 1
    /\ rets[1].db.label_tags # {}

\* the tier a data row names: <<t>>, or <<>> when its tier cell is missing,
\* empty, "0", "null" or not a number
RowTier(row, tierColIdx) ==
    IF Len(row) <= tierColIdx THEN <<>>
    ELSE LET val == TrimSpace(row[tierColIdx + 1])
         IN  IF val = <<>> \/ val = <<"0">> \/ ToLower(val) = <<"n","u","l","l">>
             THEN <<>>
             ELSE Atoi(val)

\* the data rows of the sheet a splitSheetByTier call worked on
CallData(c) == Tail(xl.sheets[c.sheet].rows)

CallName(c) == xl.sheets[c.sheet].name

\* the numeric tiers that occur in the sheet of a call
NumericTiers(c) ==
    {RowTier(CallData(c)[i], c.tierColIdx)[1] :
        i \in {j \in DOMAIN CallData(c) : RowTier(CallData(c)[j], c.tierColIdx) # <<>>}}

\* the number of times a call wrote the row below the header of file f
WrittenTo(c, f, row) ==
    IF f \in DOMAIN c.files
    THEN Cardinality({j \in 2..Len(c.files[f]) : c.files[f][j] = row})
    ELSE 0

\* C21: in every sheet split by tier, each data row without a numeric tier
\* (cell missing, empty, "0", "null" or not a number) is in the CSV of the
\* lowest numeric tier of that sheet, and in the CSV of tier 1 only when the
\* sheet has no numeric tier at all.
C21_NullRowsToLowestTier ==
    \A k \in DOMAIN xl.calls :
       LET c      == xl.calls[k]
           target == IF NumericTiers(c) = {} THEN 1
                     ELSE CHOOSE t \in NumericTiers(c) : \A u \in NumericTiers(c) : t <= u
       IN  \A i \in DOMAIN CallData(c) :
              RowTier(CallData(c)[i], c.tierColIdx) = <<>>
              => WrittenTo(c, TierFilename(CallName(c), target), CallData(c)[i]) > 0

\* C22: in every sheet split by tier each data row is written once, to one
\* tier CSV, a row with numeric tier T to '<sheet> - tier T.csv'; and the
\* tiers JSON has exactly one entry per tier number that received rows, whose
\* tags include the name without extension of each CSV written for that tier.
C22_Occurrences(c, row) ==
    Cardinality({i \in DOMAIN CallData(c) : CallData(c)[i] = row})

C22_RowsOnce ==
    \A k \in DOMAIN xl.calls :
       LET c == xl.calls[k]
       IN  \A i \in DOMAIN CallData(c) :
              LET row == CallData(c)[i]
                  t   == RowTier(row, c.tierColIdx)
                  into == {f \in DOMAIN c.files : WrittenTo(c, f, row) > 0}
              IN  /\ Cardinality(into) = 1
                  /\ \A f \in into : WrittenTo(c, f, row) = C22_Occurrences(c, row)
                  /\ t # <<>> => into = {TierFilename(CallName(c), t[1])}

C22_TiersWithRows ==
    UNION {{t \in DOMAIN xl.calls[k].foundTiers :
              /\ xl.calls[k].foundTiers[t] \in DOMAIN xl.calls[k].files
              /\ Len(xl.calls[k].files[xl.calls[k].foundTiers[t]]) > 1} :
           k \in DOMAIN xl.calls}

C22_OneFilePerRow ==
    /\ C22_RowsOnce
    /\ (xl.pc = "done" /\ ~xl.err /\ xl.format = "andy") =>
         /\ {xl.json[e].Tier : e \in DOMAIN xl.json} = C22_TiersWithRows
         /\ \A e1, e2 \in DOMAIN xl.json :
               xl.json[e1].Tier = xl.json[e2].Tier => e1 = e2
         /\ \A e \in DOMAIN xl.json : \A k \in DOMAIN xl.calls :
               LET c == xl.calls[k]
               IN  xl.json[e].Tier \in DOMAIN c.foundTiers
                   => \E g \in DOMAIN xl.json[e].Tags :
                         xl.json[e].Tags[g] \o dotCsv
                            = TierFilename(CallName(c), xl.json[e].Tier)

\* two sheets were split, one of them into two files with a row that has no
\* tier of its own, and the tiers JSON is written
C22_Witness ==
    /\ xl.pc = "done"
    /\ Len(xl.calls) = 2
    /\ Len(xl.json) = 2
    /\ \E k \in DOMAIN xl.calls :
          /\ Cardinality(DOMAIN xl.calls[k].files) = 2
          /\ \E i \in DOMAIN CallData(xl.calls[k]) :
                RowTier(CallData(xl.calls[k])[i], xl.calls[k].tierColIdx) = <<>>

\* C23: at the end of every ImportCSV run in which no store operation
\* failed, Imported = NewLabels + ExistingLabels.
C23_ImportedIsNewPlusExisting ==
    \A k \in DOMAIN rets :
       rets[k].status = "ok"
       => rets[k].stats.Imported
            = rets[k].stats.NewLabels + rets[k].stats.ExistingLabels

\* C24: BulkInsertLabels leaves the rows of the texts found in the id map
\* as they are and counts every such entry in ExistingCount; it inserts each
\* distinct text that is not in the map exactly once, in statements of at
\* most the chunk size, and counts it once in NewCount; and the map it
\* returns gives for every text of the batch the id of the row holding it.
C24_BulkUpsert ==
    bulk.pc = "done" =>
      LET r        == bulk.result
          known    == DOMAIN bulk.existingLabelMap
          before   == bulk.tx.view
          after    == r.tx.view
          texts    == {bulk.labels[i].label : i \in DOMAIN bulk.labels}
          newTexts == texts \ known
      IN  /\ ~r.err
          /\ r.ExistingCount
               = Cardinality({i \in DOMAIN bulk.labels : bulk.labels[i].label \in known})
          /\ r.NewCount = Cardinality(newTexts)
          /\ Len(after.labels) = Len(before.labels) + Cardinality(newTexts)
          /\ SubSeq(after.labels, 1, Len(before.labels)) = before.labels
          /\ after.tags = before.tags
          /\ after.label_tags = before.label_tags
          /\ \A x \in newTexts :
                Cardinality({j \in DOMAIN after.labels : after.labels[j].label = x}) = 1
          /\ \A k \in DOMAIN r.stmts : r.stmts[k] >= 1 /\ r.stmts[k] <= bulk.rows
          /\ DOMAIN r.LabelMap = texts
          /\ \A x \in texts :
                /\ r.LabelMap[x] \in DOMAIN after.labels
                /\ after.labels[r.LabelMap[x]].label = x

\* a batch with a text of the map, a new text twice and enough new texts for
\* two statements
C24_Witness ==
    /\ bulk.pc = "done"
    /\ Len(bulk.result.stmts) >= 2
    /\ bulk.result.ExistingCount >= 1
    /\ \E i, j \in DOMAIN bulk.labels :
          /\ i # j
          /\ bulk.labels[i] = bulk.labels[j]
          /\ bulk.labels[i].label \notin DOMAIN bulk.existingLabelMap

\* C25: ImportCSV commits in bounded groups.  While its transaction is open
\* the accepted rows written and not yet committed, and the label rows they
\* created, never exceed commitInterval; no step takes a committed label,
\* tag or association out of the store; and the step in which a commit fails
\* leaves the committed store as it was, so that a failed run keeps every
\* group committed before the failure.
C25_NewlyFailed ==
    \E i \in DOMAIN imp'.txs :
       /\ imp'.txs[i].state = "failed"
       /\ (i \in DOMAIN imp.txs => imp.txs[i].state # "failed")

C25_BoundedGroups ==
    /\ [][/\ C20_Extends(db, db')
          /\ C25_NewlyFailed => db' = db]_vars
    /\ []((imp.pc # "idle" /\ TxOpen(CurTx(imp))) =>
            /\ imp.labelsProcessed <= commitInterval
            /\ Len(CurTx(imp).view.labels) - Len(db.labels) <= commitInterval)
    /\ [](\A k \in DOMAIN rets : C20_Extends(rets[k].db, db))

\* a run failed at a later commit and returned an error, and the group
\* committed before the failure is in the store
C25_Witness ==
    /\ Len(rets) = 1
    /\ rets[1].status = "err"
    /\ Len(db.labels) > 0
    /\ db.label_tags # {}
    /\ \E i \in DOMAIN imp.txs : imp.txs[i].state = "committed"
    /\ \E i \in DOMAIN imp.txs : imp.txs[i].state = "failed"

\* C26: a row whose trimmed, lower-cased field passes ValidateLabel and is
\* not one of the header words is never skipped: the read loop takes it into
\* the batch, wherever it stands in the file.
C26_ValidNext ==
    /\ imp.pc = "loop" /\ imp.pos < Len(file)
    /\ C13_Candidate(file[imp.pos + 1])
    /\ Norm(file[imp.pos + 1]) \notin headerKeywords
    /\ ValidateLabel(Norm(file[imp.pos + 1]), Norm(file[imp.pos + 1]) \in idnaValid) = "nil"

C26_ValidRowNeverHeader ==
    [][C26_ValidNext =>
         /\ imp'.stats.HeaderSkipped = imp.stats.HeaderSkipped
         /\ imp'.stats.Skipped = imp.stats.Skipped
         /\ \/ imp'.batch = Append(imp.batch,
                               [label |-> Norm(file[imp.pos + 1]),
                                length |-> Len(Norm(file[imp.pos + 1]))])
            \/ imp'.stats.Imported = imp.stats.Imported + Len(imp.batch) + 1
            \/ Len(imp'.stats.Errors) = Len(imp.stats.Errors) + 1]_vars

\* C27: when ImportCSV has returned, every transaction it began is
\* committed or rolled back (a failed COMMIT rolls back).
C27_NoOpenTxAfterReturn ==
    (imp.pc = "idle" /\ Len(rets) > 0) =>
       \A i \in DOMAIN imp.txs : ~TxOpen(imp.txs[i])

\* C28: when ImportCSV returns without error from a run with autoTag and a
\* filename tag, the store holds the filename tag and every pre-created
\* length tag, whether or not a row of the file was accepted.
C28_TagsOf(d) == Range(d.tags)

C28_PreCreatedTagsStored ==
    \A k \in DOMAIN rets :
       (rets[k].status = "ok" /\ autoTag /\ filenameTag # <<>>) =>
          /\ filenameTag \in C28_TagsOf(rets[k].db)
          /\ \A i \in 1..PreLenTags : GenerateLengthTag(i) \in C28_TagsOf(rets[k].db)

\* C29: what GetAllLabelsWithTags returns for a label is exactly the set of
\* names of the tags associated with it in the store, whatever the names
\* are, so that a tier matches a label exactly when the label carries one of
\* the tier's tags.  (Evaluated right after a generate command, which reads
\* the store through GetAllLabelsWithTags.)
C29_TagRoundTrip ==
    (gDone /\ cmd.last = "generate" /\ cmd.pc = "shell") =>
       /\ DOMAIN gLabels = LabelTexts(db)
       /\ \A l \in DOMAIN gLabels :
             /\ Range(gLabels[l]) = TagsOfLabel(db, l)
             /\ \A i \in DOMAIN gTiers :
                   hasMatchingTag(gTiers[i].Tags, Range(gLabels[l]))
                     <=> (Range(gTiers[i].Tags) \cap TagsOfLabel(db, l) # {})

\* C30: in every ImportCSV run without a store failure each row read is
\* counted exactly once: the rows of the file are the imported ones, the
\* skipped ones and those that failed to parse; and the skipped ones are the
\* blank rows, the rows reported invalid and at most one header.
C30_Count(S) == Cardinality(S)

C30_EveryRowCountedOnce ==
    \A k \in DOMAIN rets :
       (/\ rets[k].status = "ok"
        /\ \A j \in DOMAIN rets[k].stats.Errors : rets[k].stats.Errors[j] # BatchError)
       => LET s       == rets[k].stats
              parse   == C30_Count({i \in DOMAIN file : file[i].bad})
              blank   == C30_Count({i \in DOMAIN file : ~file[i].bad /\ Norm(file[i]) = <<>>})
              invalid == C30_Count({j \in DOMAIN s.Errors : s.Errors[j].kind # "parse error"})
          IN  /\ Len(file) = s.Imported + s.Skipped + parse
              /\ parse = C30_Count({j \in DOMAIN s.Errors : s.Errors[j].kind = "parse error"})
              /\ s.Skipped = blank + invalid + (IF s.HeaderSkipped THEN 1 ELSE 0)

\* a run returned after a header, a row that failed to parse and an
\* imported row
C30_Witness ==
    /\ Len(rets) >= 1
    /\ rets[1].status = "ok"
    /\ rets[1].stats.HeaderSkipped
    /\ rets[1].stats.Imported >= 1
    /\ \E i \in DOMAIN file : file[i].bad

====
